---------------------------- MODULE Spec2Model ----------------------------
(***************************************************************************)
(* Model of github.com/udhos/oauth2: the client-credentials Client         *)
(* (clientcredentials/clientcredentials.go), the Token value               *)
(* (clientcredentials/token.go) and the token caches (memory cache of      *)
(* package token, cache/errorcache).                                       *)
(*                                                                         *)
(* Each goroutine calling Client.Do is a process p \in Procs.  A Do call   *)
(* is cut at the points where it touches shared state or blocks:           *)
(*   DoGetToken       Do:94 -> getToken:123-127   (Cache.Get)              *)
(*   getTokenCheck    getToken:128-135            (TimeSource, IsValid)    *)
(*   fetchToken       fetchToken:139-151, fetchTokenRaw:165-184 (POST out) *)
(*   fetchTokenRaw    fetchTokenRaw:184-221       (response .. Cache.Put)  *)
(*   fetchTokenReturn fetchToken:151-161          (singleflight fan-out)   *)
(*   DoSend           Do:95-99, send:117-120      (resource request out)   *)
(*   DoResponse       Do:99-114                   (status, Cache.Expire)   *)
(* Time is counted in whole seconds.                                       *)
(***************************************************************************)
EXTENDS Integers, Sequences, FiniteSets, TLC

\* ------------------------------------------------------------------ bounds
NumProcs == 2          \* concurrent callers of Client.Do
MaxCalls == 2          \* Do calls concurrent callers make, all together
MaxSeqCalls == 3       \* Do calls a single caller makes one after the other
CallsEach == 1         \* most Do calls one task of a concurrent test makes
MaxTime  == 1          \* seconds time.Now() may advance
MaxClock == 2          \* seconds an injected TimeSource may advance
MaxSoft  == 2          \* largest toleration a function is applied to on its own
DurationBits == 12     \* width of a time.Duration, in bits
MaxOps   == 2          \* cache operations the users of one storage run, all together
StartTime == 100       \* reading of both clocks when New returns

\* ------------------------------------------------------- program constants
DefaultSoftExpire == 10        \* New: case 0
ExpiredDeadline   == 0         \* token.go: var expired = time.Time{}
Minute            == 60        \* rediscache Put: time.Minute, in seconds
Second            == 10       \* time.Second, in tenths of a second
StatusOK          == 200       \* fetchTokenRaw: resp.StatusCode != 200
StatusUnauthorized == 401      \* Do: resp.StatusCode == 401

Procs == 1..NumProcs

\* ------------------------------------------------------------------- Token
\* type Token struct { Value; Deadline; Expirable }
Token(v, d, e) == [Value |-> v, Deadline |-> d, Expirable |-> e]

ZeroToken == Token("", ExpiredDeadline, FALSE)

\* (an IsValid that looks at the deadline only)
IsValidDeadlineOnly(t, now, softExpire) == t.Deadline > now + softExpire

\* (an IsValid that accepts a deadline equal to now + softExpire)
IsValidInclusive(t, now, softExpire) ==
    (~t.Expirable) \/ (t.Deadline >= now + softExpire)

\* (an IsValid that reports every token valid)
IsValidAlways(t, now, softExpire) == TRUE

\* func (t *Token) IsValid(now, softExpire)
IsValid(t, now, softExpire) ==
    (~t.Expirable) \/ (t.Deadline > now + softExpire)

\* (an Expire that also clears the value)
TokenExpireClearsValue(t) == [Value |-> "", Deadline |-> ExpiredDeadline, Expirable |-> TRUE]

\* (an Expire that leaves the deadline alone)
TokenExpireFlagOnly(t) == [t EXCEPT !.Expirable = TRUE]

\* func (t *Token) Expire()
TokenExpire(t) == [t EXCEPT !.Expirable = TRUE, !.Deadline = ExpiredDeadline]

\* func (t *Token) SetExpiration(deadline)
SetExpiration(t, deadline) == [t EXCEPT !.Expirable = TRUE, !.Deadline = deadline]


\* ------------------------------------------------- token endpoint payloads
\* A decoded JSON value of the token response.  Numbers are carried in
\* tenths (n = 15 is 1.5) so that fractions exist; the string of an
\* expires_in field is carried as its characters (c), the string of an
\* access_token field as a model string (s).
JVal(ty, n, s, c) == [ty |-> ty, n |-> n, s |-> s, c |-> c]
JAbsent  == JVal("absent", 0, "", <<>>)
JNull    == JVal("null", 0, "", <<>>)
JBool    == JVal("bool", 0, "", <<>>)
JNum(n)  == JVal("number", n, "", <<>>)
JTok(s)  == JVal("string", 0, s, <<>>)
JChars(c) == JVal("string", 0, "", c)

\* A response body: kind "invalid" does not decode (empty, broken-token),
\* "nonobject" decodes to something that is no JSON object, "null" is the
\* literal null, "object" is an object with the two fields of interest.
Body(kind, at, ex) == [kind |-> kind, at |-> at, ex |-> ex]

Digits == <<"0", "1", "2", "3", "4", "5", "6", "7", "8", "9">>
IsDigit(ch) == \E i \in 1..10 : Digits[i] = ch
DigitVal(ch) == (CHOOSE i \in 1..10 : Digits[i] = ch) - 1

RECURSIVE DigitsValue(_)
DigitsValue(cs) ==
    IF cs = <<>> THEN 0
    ELSE 10 * DigitsValue(SubSeq(cs, 1, Len(cs) - 1)) + DigitVal(cs[Len(cs)])

\* strconv.Atoi: an optional sign, then one or more decimal digits.
Atoi(cs) ==
    LET signed == Len(cs) > 0 /\ cs[1] \in {"+", "-"}
        ds     == IF signed THEN Tail(cs) ELSE cs
        okay   == Len(ds) > 0 /\ \A i \in 1..Len(ds) : IsDigit(ds[i])
        v      == IF okay THEN DigitsValue(ds) ELSE 0
    IN  [ok |-> okay,
         v  |-> IF signed /\ cs[1] = "-" THEN 0 - v ELSE v]

\* time.Duration(float64): conversion truncates toward zero.
TruncTenths(n) == IF n >= 0 THEN n \div 10 ELSE 0 - ((0 - n) \div 10)

\* time.Duration is an int64 count of nanoseconds; the model keeps the count
\* in tenths of a second, in DurationBits bits, two's complement.
WrapDuration(x) ==
    ((x + 2^(DurationBits - 1)) % (2^DurationBits)) - 2^(DurationBits - 1)
MaxDuration == 2^(DurationBits - 1) - 1

\* Whole seconds of a duration, for the clocks of the model, which read
\* whole seconds.
Seconds(d) == d \div Second

TokenInfo(err, tok, exp) == [err |-> err, accessToken |-> tok, expiresIn |-> exp]

\* (a parseToken that lets an empty access_token through)
AccessTokenErrorEmptyAllowed(body) ==
    IF body.kind \in {"invalid", "nonobject"} THEN "json"
    ELSE IF body.kind = "null" \/ body.at.ty = "absent" THEN "missing access_token"
    ELSE IF body.at.ty # "string" THEN "non-string access_token"
    ELSE ""

\* parseToken:232-251: json.Unmarshal into a map, then the access_token
\* field: found, a string, not empty
AccessTokenError(body) ==
    IF body.kind \in {"invalid", "nonobject"} THEN "json"
    ELSE IF body.kind = "null" \/ body.at.ty = "absent" THEN "missing access_token"
    ELSE IF body.at.ty # "string" THEN "non-string access_token"
    ELSE IF body.at.s = "" THEN "empty access_token"
    ELSE ""

\* parseToken:255-271: the expires_in field: time.Second * time.Duration(v)
\* for a float64 or for the int of strconv.Atoi of a string
ExpiresIn(ex) ==
    IF ex.ty = "absent" THEN [err |-> "", d |-> 0]
    ELSE IF ex.ty = "number"
    THEN [err |-> "", d |-> WrapDuration(Second * TruncTenths(ex.n))]
    ELSE IF ex.ty = "string"
    THEN IF Atoi(ex.c).ok
         THEN [err |-> "", d |-> WrapDuration(Second * Atoi(ex.c).v)]
         ELSE [err |-> "expires_in string", d |-> 0]
    ELSE [err |-> "expires_in type", d |-> 0]

\* func parseToken(buf) (tokenInfo, error); err = "" is the nil error.
parseToken(body) ==
    IF AccessTokenError(body) # ""
    THEN TokenInfo(AccessTokenError(body), "", 0)
    ELSE TokenInfo(ExpiresIn(body.ex).err, body.at.s, ExpiresIn(body.ex).d)


\* ------------------------------------------------------------ token caches
\* A cache operation returns the new content of the storage and whether it
\* returned an error.  kind selects the implementation (cache.New).
CacheResult(store, t, err) == [store |-> store, t |-> t, err |-> err]

\* token.memoryCache (process-local variable under one mutex)
memoryCacheGet(store)    == CacheResult(store, store, FALSE)
memoryCachePut(store, t) == CacheResult(t, t, FALSE)
memoryCacheExpire(store) == CacheResult(TokenExpire(store), TokenExpire(store), FALSE)

\* (an error cache whose Get returns the zero token and no error)
errorCacheGetNoError(store) == CacheResult(store, ZeroToken, FALSE)

\* errorcache.Cache: every operation returns errAlways
errorCacheGet(store)    == CacheResult(store, ZeroToken, TRUE)
errorCachePut(store, t) == CacheResult(store, ZeroToken, TRUE)
errorCacheExpire(store) == CacheResult(store, ZeroToken, TRUE)

CacheKinds == {"memory", "error"}

\* TokenCache interface: Get, Put, Expire
CacheGet(kind, store) ==
    IF kind = "memory" THEN memoryCacheGet(store) ELSE errorCacheGet(store)
CachePut(kind, store, t) ==
    IF kind = "memory" THEN memoryCachePut(store, t) ELSE errorCachePut(store, t)
CacheExpire(kind, store) ==
    IF kind = "memory" THEN memoryCacheExpire(store) ELSE errorCacheExpire(store)

\* ------------------------------------------------- persistent token caches
\* The bytes of a token record.  kind "token" is the JSON object ExportJSON
\* writes: value as a JSON string, deadline as the characters of the time,
\* expirable as a JSON boolean; "empty" is no bytes at all (a file just
\* created), "garbage" bytes that do not decode (a short write).
TokenText(v, d, e) == [kind |-> "token", value |-> v, deadline |-> d, expirable |-> e]
EmptyText   == [kind |-> "empty", value |-> "", deadline |-> <<>>, expirable |-> FALSE]
GarbageText == [kind |-> "garbage", value |-> "", deadline |-> <<>>, expirable |-> FALSE]

\* json.Marshal of a string: bytes that are not valid UTF-8 are replaced
\* by U+FFFD.
BadUTF8      == "a<ff>"
ReplacedUTF8 == "a<fffd>"
JSONString(v) == IF v = BadUTF8 THEN ReplacedUTF8 ELSE v

\* time.Time as JSON: the instant written out in decimal characters.
RECURSIVE FormatDigits(_)
FormatDigits(n) ==
    IF n < 10 THEN <<Digits[n + 1]>>
    ELSE Append(FormatDigits(n \div 10), Digits[(n % 10) + 1])
FormatTime(d) == FormatDigits(d)
ParseTime(cs) == Atoi(cs)

\* (an ExportJSON that leaves the expirable field out)
ExportJSONWithoutExpirable(t) ==
    TokenText(JSONString(t.Value), FormatTime(t.Deadline), FALSE)

\* func (t Token) ExportJSON() ([]byte, error)
ExportJSON(t) == TokenText(JSONString(t.Value), FormatTime(t.Deadline), t.Expirable)

\* func NewTokenFromJSON(buf []byte) (Token, error)
Decoded(t, err) == [t |-> t, err |-> err]
NewTokenFromJSON(text) ==
    IF text.kind = "token" /\ ParseTime(text.deadline).ok
    THEN Decoded(Token(text.value, ParseTime(text.deadline).v, text.expirable), FALSE)
    ELSE Decoded(ZeroToken, TRUE)

\* What the environment does to one cache operation: whether its read and
\* its write go through.  A file write fails in os.Create (file untouched),
\* in out.Write with nothing written, or with part of the bytes written; a
\* redis command fails as a whole.
Fault(read, write) == [read |-> read, write |-> write]
NoFault == Fault("ok", "ok")
FileFaults ==
    {Fault(r, w) : r \in {"ok", "fails"},
                   w \in {"ok", "create fails", "write fails", "short write"}}
RedisFaults == {Fault(r, w) : r \in {"ok", "fails"}, w \in {"ok", "fails"}}

\* filecache.Cache: the file at c.filename
File(exists, text) == [exists |-> exists, text |-> text]
NoFile == File(FALSE, EmptyText)

\* filecache: tokenFromFile(filename)
tokenFromFile(f, io) ==
    IF io.read # "ok" \/ ~f.exists
    THEN CacheResult(f, ZeroToken, TRUE)
    ELSE CacheResult(f, NewTokenFromJSON(f.text).t, NewTokenFromJSON(f.text).err)

\* filecache: saveToken(t, filename): os.Create, ExportJSON, out.Write
saveToken(f, t, io) ==
    IF io.write = "create fails" THEN CacheResult(f, ZeroToken, TRUE)
    ELSE IF io.write = "write fails" THEN CacheResult(File(TRUE, EmptyText), ZeroToken, TRUE)
    ELSE IF io.write = "short write" THEN CacheResult(File(TRUE, GarbageText), ZeroToken, TRUE)
    ELSE CacheResult(File(TRUE, ExportJSON(t)), t, FALSE)

\* filecache.Cache Get / Put / Expire, each under c.mutex
fileCacheGet(f, io)    == tokenFromFile(f, io)
fileCachePut(f, t, io) == saveToken(f, t, io)
fileCacheExpire(f, io) ==
    IF tokenFromFile(f, io).err
    THEN CacheResult(f, ZeroToken, TRUE)
    ELSE saveToken(f, TokenExpire(tokenFromFile(f, io).t), io)

\* rediscache.Cache: the value under c.key with the expiration it was set with
Key(present, text, ttl) == [present |-> present, text |-> text, ttl |-> ttl]
NoKey == Key(FALSE, EmptyText, 0)

\* (a Put that sets the key to expire at the token's deadline)
ExpirationAtDeadline(t, now) == IF t.Expirable THEN t.Deadline - now ELSE 0

\* rediscache Put: time.Until(t.Deadline) + time.Minute for an expirable
\* token, the zero expiration otherwise
Expiration(t, now) == IF t.Expirable THEN (t.Deadline - now) + Minute ELSE 0

\* rediscache.Cache.Get
redisCacheGet(k, io) ==
    IF io.read # "ok" \/ ~k.present
    THEN CacheResult(k, ZeroToken, TRUE)
    ELSE CacheResult(k, NewTokenFromJSON(k.text).t, NewTokenFromJSON(k.text).err)

\* rediscache.Cache.Put
redisCachePut(k, t, now, io) ==
    IF io.write # "ok"
    THEN CacheResult(k, ZeroToken, TRUE)
    ELSE CacheResult(Key(TRUE, ExportJSON(t), Expiration(t, now)), t, FALSE)

\* rediscache.Cache.Expire: Get, t.Expire(), Put, run without interruption
redisCacheExpire(k, now, io) ==
    IF redisCacheGet(k, io).err
    THEN CacheResult(k, ZeroToken, TRUE)
    ELSE redisCachePut(k, TokenExpire(redisCacheGet(k, io).t), now, io)

\* Every implementation cache.New can return, and the default.
Backends == {"memory", "file", "redis", "error"}

\* The faults the environment can inject into an operation of a backend.
Faults(kind) ==
    IF kind = "file" THEN FileFaults
    ELSE IF kind = "redis" THEN RedisFaults
    ELSE {NoFault}

\* TokenCache interface over every backend; now is time.Now().
BackendGet(kind, store, io) ==
    IF kind = "file" THEN fileCacheGet(store, io)
    ELSE IF kind = "redis" THEN redisCacheGet(store, io)
    ELSE CacheGet(kind, store)
BackendPut(kind, store, t, now, io) ==
    IF kind = "file" THEN fileCachePut(store, t, io)
    ELSE IF kind = "redis" THEN redisCachePut(store, t, now, io)
    ELSE CachePut(kind, store, t)
BackendExpire(kind, store, now, io) ==
    IF kind = "file" THEN fileCacheExpire(store, io)
    ELSE IF kind = "redis" THEN redisCacheExpire(store, now, io)
    ELSE CacheExpire(kind, store)

\* ------------------------------------------------------------------ Client
\* Values the modelled servers and configurations range over.
TokenValues == {"a", "b"}
SoftExpireConfigs == {-1, 0, 1}
Lifetimes == {10, 20}          \* expires_in values, in tenths of a second

\* Tokens a cache passed to New may already hold.
PriorTokens ==
    {Token(v, d, e) : v \in {"", "a"},
                      d \in {ExpiredDeadline, StartTime + 1},
                      e \in BOOLEAN}

\* Replies of the token endpoint to one POST.
TokenBodies ==
    {Body("invalid", JAbsent, JAbsent), Body("object", JTok(""), JAbsent)}
    \cup {Body("object", JTok(v), ex) :
            v \in TokenValues,
            ex \in {JAbsent, JNum(5), JChars(<<"1">>)} \cup {JNum(n) : n \in Lifetimes}}

HTTPReply(err, status, body) == [err |-> err, status |-> status, body |-> body]

TokenReplies ==
    {HTTPReply("errDo", 0, Body("invalid", JAbsent, JAbsent)),
     HTTPReply("errBody", StatusOK, Body("invalid", JAbsent, JAbsent)),
     HTTPReply("", StatusUnauthorized, Body("invalid", JAbsent, JAbsent))}
    \cup {HTTPReply("", StatusOK, b) : b \in TokenBodies}

\* Replies of the resource server to one request.
ResourceStatuses == {StatusOK, StatusUnauthorized, 500}
ResourceReplies ==
    {HTTPReply("errResp", 0, Body("invalid", JAbsent, JAbsent))}
    \cup {HTTPReply("", st, Body("invalid", JAbsent, JAbsent)) : st \in ResourceStatuses}

VARIABLES
    options,        \* Client.options after New
    cache,          \* storage of options.Cache
    group,          \* Client.group: the caller running the in-flight call, 0 if none
    wall,           \* time.Now()
    clock,          \* the injected TimeSource, when one is configured
    pc,             \* where each caller stands in Do
    count,          \* Do calls the application has yet to make
    got,            \* getToken: t returned by Cache.Get
    res,            \* getToken / fetchToken: (string, error) of the call under way
    src,            \* how the call under way obtained res
    ret,            \* the latest return of a Do call: who returned what
    tokenCalls,     \* POSTs sent to the token URL
    resourceCalls,  \* requests sent to the resource server
    seen,           \* history of a sequential run (see Observe)
    probe,          \* one function of the packages applied on its own (see SpecUnit)
    flight,         \* calls made by each task of a concurrent test (see SpecFlight)
    users,          \* goroutines and clients calling one cache storage (see SpecCache)
    cancelled,      \* callers whose request context is cancelled (see SpecCancel)
    clients         \* two Clients of one process and their caches (see SpecClients)

\* The variables that only the specifications of parts of the program change.
unitVars == <<probe, flight, users, cancelled, clients>>

vars == <<options, cache, group, wall, clock, pc, count, got, res, src, ret,
          tokenCalls, resourceCalls, seen, probe, flight, users, cancelled, clients>>

Result(err, val) == [err |-> err, val |-> val]
NoResult == Result("", "")
Return(p, resp, status, err) ==
    [who |-> p, resp |-> resp, status |-> status, err |-> err]
NoReturn == Return(0, "none", 0, "")

\* What a test observes of a sequential run: the two counters when the call
\* under way began and the token that call has stored in the cache; of the
\* call before it how it got its token, what it attached, what it returned,
\* how many POSTs it sent, what it stored and what it left in the cache.
Summary(how, val, r, posts, stored, left) ==
    [src |-> how, val |-> val, ret |-> r, posts |-> posts, stored |-> stored, left |-> left]
History(t0, r0, stored, prev) == [t0 |-> t0, r0 |-> r0, stored |-> stored, prev |-> prev]
NoHistory == History(0, 0, ZeroToken, Summary("none", "", NoReturn, 0, ZeroToken, ZeroToken))

\* No task has made a call; no call has asked for a token while a fetch
\* was in flight.
NoFlight == [made |-> [p \in Procs |-> 0], overlaps |-> 0]

\* No function is being applied on its own.
NoProbe == [fn |-> "none", done |-> TRUE]

\* Where a user stands: the operation under way and its steps still to run,
\* the token it was given, the token it read, and what it has completed.
Call(op, arg, err) == [op |-> op, arg |-> arg, err |-> err]
NoCall == Call("none", ZeroToken, FALSE)
User(op, arg, rest, t, err, n, last) ==
    [op |-> op, arg |-> arg, rest |-> rest, t |-> t, err |-> err, n |-> n, last |-> last]
IdleUser == User("none", ZeroToken, <<>>, ZeroToken, FALSE, 0, NoCall)

\* Two Clients with different configurations in one process: which Clients
\* New has built, the cache each was given (0 is token.DefaultTokenCache, 1
\* and 2 are caches of their own), what the caches hold, the token the
\* latest getToken of each Client returned, and the getToken calls left.
ClientIDs == {1, 2}
Slots == {0, 1, 2}
ClientsState(built, cacheOf, slots, held, left) ==
    [built |-> built, cacheOf |-> cacheOf, slots |-> slots, held |-> held, left |-> left]

\* No second Client exists.
NoClients ==
    ClientsState({}, [c \in ClientIDs |-> 0], [k \in Slots |-> ZeroToken],
                 [c \in ClientIDs |-> ""], 0)

\* No user touches a storage directly.
NoUsers ==
    [together |-> TRUE, mutex |-> [p \in Procs |-> 0], left |-> 0,
     w |-> [p \in Procs |-> IdleUser]]

\* (a New that leaves a configured -1 as it is)
NewSoftExpireKeepsMinusOne(configured) ==
    IF configured = 0 THEN DefaultSoftExpire ELSE configured

\* func New(options Options) *Client: the normalised options
NewSoftExpire(configured) ==
    IF configured = 0 THEN DefaultSoftExpire
    ELSE IF configured = -1 THEN 0
    ELSE configured

New(softExpire, kind, disable, injected, urlOK) ==
    [SoftExpireInSeconds |-> NewSoftExpire(softExpire),
     Cache               |-> kind,
     DisableSingleFlight |-> disable,
     TimeSourceInjected  |-> injected,
     TokenURLValid       |-> urlOK]

\* New: options.Cache.Expire() on whatever the cache held
NewCache(kind, prior) == CacheExpire(kind, prior).store

\* (a client that ignores the configured TimeSource)
TimeSourceWall == wall

\* options.TimeSource()
TimeSource == IF options.TimeSourceInjected THEN clock ELSE wall

\* The state when New has returned, for the given ranges of configurations.
InitWith(softExpires, kinds, injecteds, requests) ==
    /\ \E se \in softExpires, kind \in kinds, dis \in BOOLEAN,
          inj \in injecteds, url \in BOOLEAN, prior \in PriorTokens :
          /\ options = New(se, kind, dis, inj, url)
          /\ cache = IF kind = "memory" THEN NewCache(kind, prior) ELSE ZeroToken
    /\ group = 0
    /\ wall = StartTime
    /\ clock = StartTime
    /\ pc = [p \in Procs |-> "idle"]
    /\ count = requests
    /\ got = [p \in Procs |-> ZeroToken]
    /\ res = [p \in Procs |-> NoResult]
    /\ src = [p \in Procs |-> "none"]
    /\ ret = NoReturn
    /\ tokenCalls = 0
    /\ resourceCalls = 0
    /\ seen = NoHistory
    /\ probe = NoProbe
    /\ flight = NoFlight
    /\ users = NoUsers
    /\ cancelled = {}
    /\ clients = NoClients


\* fetchTokenRaw wraps the parser's error: fmt.Errorf("parse token: %v", errParse)
ParseTokenError(e) ==
    CASE e = "json"                    -> "parse token: json"
      [] e = "missing access_token"    -> "parse token: missing access_token"
      [] e = "non-string access_token" -> "parse token: non-string access_token"
      [] e = "empty access_token"      -> "parse token: empty access_token"
      [] e = "expires_in string"       -> "parse token: expires_in string"
      [] OTHER                         -> "parse token: expires_in type"

\* fetchTokenRaw from the reply of HTTPClient.Do to its return: the
\* (string, error) returned, whether Cache.Put is called and with what.
\* now is time.Now() at SetExpiration.
RawOutcome(res0, put, tok) == [res |-> res0, put |-> put, tok |-> tok]

\* (a fetchTokenRaw that caches an empty token when the fetch fails)
fetchTokenRawFailureRemembered(err) == RawOutcome(Result(err, ""), TRUE, ZeroToken)

\* fetchTokenRaw:185-206: return "", err before anything is put
fetchTokenRawFailure(err) == RawOutcome(Result(err, ""), FALSE, ZeroToken)

\* (a fetchTokenRaw that sets the expiration whatever expires_in is)
NewTokenAlwaysExpirable(info, now) ==
    SetExpiration(Token(info.accessToken, ExpiredDeadline, FALSE),
                  now + Seconds(info.expiresIn))

\* fetchTokenRaw:208-214: newToken, with SetExpiration when expiresIn != 0
NewToken(info, now) ==
    IF info.expiresIn # 0
    THEN SetExpiration(Token(info.accessToken, ExpiredDeadline, FALSE),
                       now + Seconds(info.expiresIn))
    ELSE Token(info.accessToken, ExpiredDeadline, FALSE)

fetchTokenRawOutcome(reply, now) ==
    LET info == parseToken(reply.body)
        newToken == NewToken(info, now)
    IN  IF reply.err # ""
        THEN fetchTokenRawFailure(reply.err)
        ELSE IF reply.status # StatusOK
        THEN fetchTokenRawFailure("status")
        ELSE IF info.err # ""
        THEN fetchTokenRawFailure(ParseTokenError(info.err))
        ELSE RawOutcome(Result("", newToken.Value), TRUE, newToken)

\* Do:94 -> getToken:123-127.  A caller enters Do and reads the cache; a
\* failed read goes straight to fetchToken.
DoGetToken(p) ==
    /\ pc[p] = "idle"
    /\ count > 0
    /\ \E io \in Faults(options.Cache) :
         LET g == BackendGet(options.Cache, cache, io) IN
         /\ pc' = [pc EXCEPT ![p] = IF g.err THEN "fetch" ELSE "check"]
         /\ got' = [got EXCEPT ![p] = g.t]
    /\ count' = count - 1
    /\ UNCHANGED <<options, cache, group, wall, clock, res, src, ret,
                   tokenCalls, resourceCalls>>

\* getToken:128-135.  The validity check against the time source.
getTokenCheck(p) ==
    /\ pc[p] = "check"
    /\ IF IsValid(got[p], TimeSource, options.SoftExpireInSeconds)
       THEN /\ res' = [res EXCEPT ![p] = Result("", got[p].Value)]
            /\ src' = [src EXCEPT ![p] = "cache"]
            /\ pc' = [pc EXCEPT ![p] = "have"]
       ELSE /\ pc' = [pc EXCEPT ![p] = "fetch"]
            /\ UNCHANGED <<res, src>>
    /\ got' = [got EXCEPT ![p] = ZeroToken]
    /\ UNCHANGED <<options, cache, group, wall, clock, count, ret,
                   tokenCalls, resourceCalls>>

\* (a fetchToken that never joins the call in flight)
StartsOwnFetchAlways(p) == TRUE

\* (a fetchToken that passes the group a fresh key on every call)
StartsOwnFetchFreshKey(p) == TRUE

\* (a fetchToken that goes through the group whatever DisableSingleFlight says)
StartsOwnFetchCoordinated(p) == \A q \in Procs : pc[q] \notin {"raw", "ret"}

\* singleflight.Group.Do(key = ""): does this caller run fn itself?
StartsOwnFetch(p) == options.DisableSingleFlight \/ group = 0

\* fetchToken:139-151 and fetchTokenRaw:165-184.  Without singleflight, or
\* with no call in flight, the caller runs fetchTokenRaw and sends the POST
\* (a TokenURL that http.NewRequest rejects returns at once); otherwise it
\* waits for the call in flight.
fetchToken(p) ==
    /\ pc[p] = "fetch"
    /\ IF StartsOwnFetch(p)
       THEN /\ group' = IF options.DisableSingleFlight THEN group ELSE p
            /\ src' = [src EXCEPT ![p] = "raw"]
            /\ IF options.TokenURLValid
               THEN /\ tokenCalls' = tokenCalls + 1
                    /\ pc' = [pc EXCEPT ![p] = "raw"]
                    /\ res' = res
               ELSE /\ tokenCalls' = tokenCalls
                    /\ pc' = [pc EXCEPT ![p] = "ret"]
                    /\ res' = [res EXCEPT ![p] = Result("errReq", "")]
       ELSE /\ pc' = [pc EXCEPT ![p] = "wait"]
            /\ UNCHANGED <<group, src, res, tokenCalls>>
    /\ UNCHANGED <<options, cache, wall, clock, count, got, ret, resourceCalls>>

\* (a fetchTokenRaw that returns the error of Cache.Put)
fetchTokenRawResultPutError(out, putFailed) ==
    IF out.put /\ putFailed THEN Result("cache put", "") ELSE out.res

\* fetchTokenRaw:216-221: what is returned once Cache.Put has been tried
fetchTokenRawResult(out, putFailed) == out.res

\* (a fetchTokenRaw that calls Cache.Put before it looks at the reply)
StoreAfterRawPutFirst(out, put, store) == put.store

\* fetchTokenRaw:185-219: the storage of the cache when fetchTokenRaw
\* returns; Cache.Put is reached only past every return "", err
StoreAfterRaw(out, put, store) == IF out.put THEN put.store ELSE store

\* fetchTokenRaw:184-221.  The token endpoint replies; on success the new
\* token is built and put into the cache (a Put error is only logged).
\* replies is what the token endpoint may answer.
fetchTokenRawFrom(p, replies) ==
    /\ pc[p] = "raw"
    /\ \E reply \in replies, io \in Faults(options.Cache) :
         LET out == fetchTokenRawOutcome(reply, wall)
             put == BackendPut(options.Cache, cache, out.tok, wall, io)
         IN
         /\ res' = [res EXCEPT ![p] = fetchTokenRawResult(out, put.err)]
         /\ cache' = StoreAfterRaw(out, put, cache)
    /\ pc' = [pc EXCEPT ![p] = "ret"]
    /\ UNCHANGED <<options, group, wall, clock, count, got, src, ret,
                   tokenCalls, resourceCalls>>

fetchTokenRaw(p) == fetchTokenRawFrom(p, TokenReplies)

\* (a group that returns to the caller that ran fn and to nobody else)
SharersNone(p) == {}

\* singleflight fan-out: the callers that receive the result of p's call.
Sharers(p) ==
    IF options.DisableSingleFlight THEN {}
    ELSE {w \in Procs : pc[w] = "wait"}

\* (a fan-out that hands the waiting callers an empty string and no error)
SharedResultEmpty(p) == NoResult

\* result, errFetch, _ := c.group.Do(key, f): what the waiting callers get
SharedResult(p) == res[p]

\* (a group that keeps the finished call under its key)
GroupAfterReturnKept(p) == group

\* singleflight forgets the key when fn has returned
GroupAfterReturn(p) == IF options.DisableSingleFlight THEN group ELSE 0

\* fetchToken:151-161.  fetchTokenRaw has returned: singleflight forgets the
\* call and hands its (value, error) to the callers that waited for it.
fetchTokenReturn(p) ==
    /\ pc[p] = "ret"
    /\ group' = GroupAfterReturn(p)
    /\ pc' = [w \in Procs |-> IF w = p \/ w \in Sharers(p) THEN "have" ELSE pc[w]]
    /\ res' = [w \in Procs |-> IF w \in Sharers(p) THEN SharedResult(p) ELSE res[w]]
    /\ src' = [w \in Procs |-> IF w \in Sharers(p) THEN "shared" ELSE src[w]]
    /\ UNCHANGED <<options, cache, wall, clock, count, got, ret,
                   tokenCalls, resourceCalls>>

\* (a Do that ignores errToken)
TokenFailedNever(p) == FALSE

\* Do:95: errToken != nil
TokenFailed(p) == res[p].err # ""

\* Do:95-99, send:117-120.  An error from getToken is returned with a nil
\* response; otherwise the token is attached and the request sent.
DoSend(p) ==
    /\ pc[p] = "have"
    /\ IF TokenFailed(p)
       THEN /\ ret' = Return(p, "nil", 0, res[p].err)
            /\ pc' = [pc EXCEPT ![p] = "idle"]
            /\ res' = [res EXCEPT ![p] = NoResult]
            /\ src' = [src EXCEPT ![p] = "none"]
            /\ resourceCalls' = resourceCalls
       ELSE /\ pc' = [pc EXCEPT ![p] = "sent"]
            /\ resourceCalls' = resourceCalls + 1
            /\ UNCHANGED <<ret, res, src>>
    /\ UNCHANGED <<options, cache, group, wall, clock, count, got, tokenCalls>>

\* (a Do that never expires the cached token)
BadTokenNever(status) == FALSE

\* (a Do that expires the cached token on every error status)
BadTokenAnyError(status) == status >= 400

\* Do:104: the status on which the cached token is expired.
BadToken(status) == status = StatusUnauthorized

\* (a Do that also expires the cached token when the request fails)
ExpiresCacheOnFailure(reply) == reply.err # "" \/ BadToken(reply.status)

\* Do:100-112: Cache.Expire is reached only past errResp == nil, on 401
ExpiresCache(reply) == reply.err = "" /\ BadToken(reply.status)

\* Do:99-114.  The resource server replies; on 401 the cache is expired
\* (an Expire error is only logged) and the response is returned.
DoResponse(p) ==
    /\ pc[p] = "sent"
    /\ \E reply \in ResourceReplies, io \in Faults(options.Cache) :
         IF reply.err # ""
         THEN /\ ret' = Return(p, "nil", 0, reply.err)
              /\ cache' = IF ExpiresCache(reply)
                           THEN BackendExpire(options.Cache, cache, wall, io).store
                           ELSE cache
         ELSE /\ ret' = Return(p, "resp", reply.status, "")
              /\ cache' = IF ExpiresCache(reply)
                           THEN BackendExpire(options.Cache, cache, wall, io).store
                           ELSE cache
    /\ pc' = [pc EXCEPT ![p] = "idle"]
    /\ res' = [res EXCEPT ![p] = NoResult]
    /\ src' = [src EXCEPT ![p] = "none"]
    /\ UNCHANGED <<options, group, wall, clock, count, got, tokenCalls, resourceCalls>>

\* time.Now() advances.
TickWall ==
    /\ wall < StartTime + MaxTime
    /\ wall' = wall + 1
    /\ UNCHANGED <<options, cache, group, clock, pc, count, got, res, src, ret,
                   tokenCalls, resourceCalls>>

\* The owner of an injected TimeSource advances it.
TickClock ==
    /\ options.TimeSourceInjected
    /\ clock < StartTime + MaxClock
    /\ clock' = clock + 1
    /\ UNCHANGED <<options, cache, group, wall, pc, count, got, res, src, ret,
                   tokenCalls, resourceCalls>>

\* Concurrent callers of one Client with the default time source and soft
\* expiry disabled.
Init == InitWith({-1}, CacheKinds, {FALSE}, MaxCalls)

Next ==
    \/ \E p \in Procs : DoGetToken(p) /\ UNCHANGED <<seen, unitVars>>
    \/ \E p \in Procs : getTokenCheck(p) /\ UNCHANGED <<seen, unitVars>>
    \/ \E p \in Procs : fetchToken(p) /\ UNCHANGED <<seen, unitVars>>
    \/ \E p \in Procs : fetchTokenRaw(p) /\ UNCHANGED <<seen, unitVars>>
    \/ \E p \in Procs : fetchTokenReturn(p) /\ UNCHANGED <<seen, unitVars>>
    \/ \E p \in Procs : DoSend(p) /\ UNCHANGED <<seen, unitVars>>
    \/ \E p \in Procs : DoResponse(p) /\ UNCHANGED <<seen, unitVars>>
    \/ TickWall /\ UNCHANGED <<seen, unitVars>>

Spec == Init /\ [][Next]_vars

\* One caller making its Do calls one after the other, with or without an
\* injected time source.
InitSeq == InitWith(SoftExpireConfigs, CacheKinds, BOOLEAN, MaxSeqCalls)

\* The history kept along a step of the single caller.
Observe ==
    seen' = IF pc[1] = "idle" /\ pc'[1] # "idle"
            THEN [seen EXCEPT !.t0 = tokenCalls, !.r0 = resourceCalls, !.stored = ZeroToken]
            ELSE IF pc[1] = "raw" /\ pc'[1] = "ret" /\ res'[1].err = ""
            THEN [seen EXCEPT !.stored = cache']
            ELSE IF pc[1] # "idle" /\ pc'[1] = "idle"
            THEN [seen EXCEPT !.prev = Summary(src[1], res[1].val, ret',
                                              tokenCalls - seen.t0, seen.stored, cache')]
            ELSE seen

NextSeq ==
    \/ DoGetToken(1) /\ Observe /\ UNCHANGED unitVars
    \/ getTokenCheck(1) /\ Observe /\ UNCHANGED unitVars
    \/ fetchToken(1) /\ Observe /\ UNCHANGED unitVars
    \/ fetchTokenRaw(1) /\ Observe /\ UNCHANGED unitVars
    \/ fetchTokenReturn(1) /\ Observe /\ UNCHANGED unitVars
    \/ DoSend(1) /\ Observe /\ UNCHANGED unitVars
    \/ DoResponse(1) /\ Observe /\ UNCHANGED unitVars
    \/ TickWall /\ UNCHANGED <<seen, unitVars>>
    \/ TickClock /\ UNCHANGED <<seen, unitVars>>

SpecSeq == InitSeq /\ [][NextSeq]_vars

\* The same caller with a token server whose tokens live one second or
\* have expired a second before they are issued (expires_in 1 and -1).
ShortLifetimes == {10, 0 - 10}     \* expires_in values, in tenths of a second
ShortReplies ==
    {HTTPReply("", StatusOK, Body("object", JTok(v), JNum(n))) :
        v \in TokenValues, n \in ShortLifetimes}

InitShort == InitWith(SoftExpireConfigs, {"memory"}, BOOLEAN, MaxSeqCalls)

NextShort ==
    \/ DoGetToken(1) /\ Observe /\ UNCHANGED unitVars
    \/ getTokenCheck(1) /\ Observe /\ UNCHANGED unitVars
    \/ fetchToken(1) /\ Observe /\ UNCHANGED unitVars
    \/ fetchTokenRawFrom(1, ShortReplies) /\ Observe /\ UNCHANGED unitVars
    \/ fetchTokenReturn(1) /\ Observe /\ UNCHANGED unitVars
    \/ DoSend(1) /\ Observe /\ UNCHANGED unitVars
    \/ DoResponse(1) /\ Observe /\ UNCHANGED unitVars
    \/ TickWall /\ UNCHANGED <<seen, unitVars>>
    \/ TickClock /\ UNCHANGED <<seen, unitVars>>

SpecShort == InitShort /\ [][NextShort]_vars

\* ------------------------------------------------------- concurrent tests
\* TestSingleFlight / TestDisableSingleFlight: goroutines make Do calls on
\* one Client with the always-failing cache and a token server that can be
\* reached; MaxCalls calls are made in all, at most CallsEach by one task
\* (with NumProcs * CallsEach = MaxCalls every task makes CallsEach calls).
InitFlight ==
    /\ InitWith({-1}, {"error"}, {FALSE}, MaxCalls)
    /\ options.TokenURLValid

\* A call is under way in fetchTokenRaw.
FetchUnderWay == \E q \in Procs : pc[q] \in {"raw", "ret"}

\* The test's loop: task p makes its next call.
TaskCalls(p) ==
    /\ flight.made[p] < CallsEach
    /\ flight' = [flight EXCEPT !.made[p] = @ + 1]

\* A call asks for a token while another call's fetch is under way.
TaskAsks(p) ==
    flight' = IF FetchUnderWay
              THEN [flight EXCEPT !.overlaps = @ + 1]
              ELSE flight

NextFlight ==
    \/ \E p \in Procs : DoGetToken(p) /\ TaskCalls(p) /\ UNCHANGED <<seen, probe, users, cancelled, clients>>
    \/ \E p \in Procs : fetchToken(p) /\ TaskAsks(p) /\ UNCHANGED <<seen, probe, users, cancelled, clients>>
    \/ \E p \in Procs : fetchTokenRaw(p) /\ UNCHANGED <<seen, unitVars>>
    \/ \E p \in Procs : fetchTokenReturn(p) /\ UNCHANGED <<seen, unitVars>>
    \/ \E p \in Procs : DoSend(p) /\ UNCHANGED <<seen, unitVars>>
    \/ \E p \in Procs : DoResponse(p) /\ UNCHANGED <<seen, unitVars>>

SpecFlight == InitFlight /\ [][NextFlight]_vars

\* The same test when every goroutine keeps running and every HTTP exchange
\* returns: each step of a call under way is taken sooner or later.  Nothing
\* obliges a task to begin a call.
CallProceeds(p) ==
    \/ fetchToken(p) /\ TaskAsks(p) /\ UNCHANGED <<seen, probe, users, cancelled, clients>>
    \/ fetchTokenRaw(p) /\ UNCHANGED <<seen, unitVars>>
    \/ fetchTokenReturn(p) /\ UNCHANGED <<seen, unitVars>>
    \/ DoSend(p) /\ UNCHANGED <<seen, unitVars>>
    \/ DoResponse(p) /\ UNCHANGED <<seen, unitVars>>

SpecLive ==
    /\ InitFlight
    /\ [][NextFlight]_vars
    /\ \A p \in Procs : WF_vars(CallProceeds(p))

\* ------------------------------------------------- functions on their own
\* The variables of a Client and its callers.
clientVars == <<options, cache, group, wall, clock, pc, count, got, res, src, ret,
                tokenCalls, resourceCalls, seen>>

\* A Client nobody calls.
ClientParked ==
    /\ options = New(-1, "memory", FALSE, FALSE, TRUE)
    /\ cache = ZeroToken
    /\ group = 0
    /\ wall = StartTime
    /\ clock = StartTime
    /\ pc = [p \in Procs |-> "idle"]
    /\ count = 0
    /\ got = [p \in Procs |-> ZeroToken]
    /\ res = [p \in Procs |-> NoResult]
    /\ src = [p \in Procs |-> "none"]
    /\ ret = NoReturn
    /\ tokenCalls = 0
    /\ resourceCalls = 0
    /\ seen = NoHistory

\* Arguments the functions are applied to.
UnitSoftExpires == (0 - MaxSoft) .. MaxSoft
UnitTimes == StartTime .. (StartTime + MaxTime)
UnitDeadlines ==
    {ExpiredDeadline} \cup ((StartTime - MaxSoft - 1) .. (StartTime + MaxTime + MaxSoft + 1))
UnitTokens ==
    {Token(v, d, e) : v \in {"", "a"}, d \in UnitDeadlines, e \in BOOLEAN}
UnitConfigs == ((0 - MaxSoft - 1) .. (MaxSoft + 1)) \cup {DefaultSoftExpire}

IsValidProbes ==
    {[fn |-> "IsValid", done |-> FALSE, t |-> t, now |-> n, softExpire |-> se,
      out |-> FALSE] : t \in UnitTokens, n \in UnitTimes, se \in UnitSoftExpires}
NewProbes ==
    {[fn |-> "New", done |-> FALSE, configured |-> c,
      out |-> New(0, "memory", FALSE, FALSE, TRUE)] : c \in UnitConfigs}

\* What the storage of a backend may hold before an operation: any token,
\* and for the persistent backends also nothing or bytes that do not decode.
StoreTokens ==
    {Token(v, d, e) : v \in {"", "a"},
                      d \in {ExpiredDeadline, StartTime + MaxTime + MaxSoft + 1},
                      e \in BOOLEAN}
PriorStores(kind) ==
    IF kind = "memory" THEN StoreTokens
    ELSE IF kind = "file"
    THEN {NoFile, File(TRUE, EmptyText), File(TRUE, GarbageText)}
         \cup {File(TRUE, ExportJSON(t)) : t \in StoreTokens}
    ELSE IF kind = "redis"
    THEN {NoKey, Key(TRUE, GarbageText, 0)}
         \cup {Key(TRUE, ExportJSON(t), Expiration(t, StartTime)) : t \in StoreTokens}
    ELSE {ZeroToken}

\* Tokens handed to Put.
PutTokens ==
    {Token(v, d, e) : v \in {"b", BadUTF8},
                      d \in {ExpiredDeadline, StartTime + MaxTime + 1},
                      e \in BOOLEAN}

\* The faults of an operation that only reads.
ReadFaults(kind) == {io \in Faults(kind) : io.write = "ok"}

\* What two operations in a row returned and left behind.
Outcome(firstErr, getErr, t, store) ==
    [firstErr |-> firstErr, getErr |-> getErr, t |-> t, store |-> store]
NoOutcome == Outcome(FALSE, FALSE, ZeroToken, ZeroToken)

ExpireGetProbes ==
    {[fn |-> "ExpireGet", done |-> FALSE, kind |-> k, store |-> st, now |-> n,
      io1 |-> a, io2 |-> b, out |-> NoOutcome] :
        k \in Backends, st \in UNION {PriorStores(kk) : kk \in Backends},
        n \in UnitTimes,
        a \in UNION {Faults(kk) : kk \in Backends},
        b \in UNION {ReadFaults(kk) : kk \in Backends}}
PutGetProbes ==
    {[fn |-> "PutGet", done |-> FALSE, kind |-> k, store |-> st, t |-> t, now |-> n,
      io1 |-> a, io2 |-> b, out |-> NoOutcome] :
        k \in Backends, st \in UNION {PriorStores(kk) : kk \in Backends},
        t \in PutTokens, n \in UnitTimes,
        a \in UNION {Faults(kk) : kk \in Backends},
        b \in UNION {ReadFaults(kk) : kk \in Backends}}

\* Bodies handed to parseToken. NumberFits is the largest count of seconds
\* whose product with time.Second fits a time.Duration; an expires_in number
\* is in tenths of a second.
NumberFits == MaxDuration \div Second
ParseNumbers ==
    {0, 4, 10, 15, 0 - 4, 0 - 15, 10 * NumberFits, 10 * (NumberFits + 1)}
ParseStrings ==
    {<<>>, <<"x">>, <<"0">>, <<"1">>, <<"-", "1">>, <<"+", "1">>,
     <<"1", ".", "5">>, <<"1", "x">>,
     FormatDigits(NumberFits), FormatDigits(NumberFits + 1)}
ParseExpires ==
    {JAbsent, JNull, JBool, JVal("object", 0, "", <<>>), JVal("array", 0, "", <<>>)}
        \cup {JNum(n) : n \in ParseNumbers}
        \cup {JChars(cs) : cs \in ParseStrings}
ParseAccess == {JAbsent, JNull, JBool, JNum(10), JTok(""), JTok("a"), JTok("b")}
ParseBodies ==
    {Body(k, JAbsent, JAbsent) : k \in {"invalid", "nonobject", "null"}}
        \cup {Body("object", at, ex) : at \in ParseAccess, ex \in ParseExpires}
ParseTokenProbes ==
    {[fn |-> "parseToken", done |-> FALSE, body |-> b, out |-> TokenInfo("", "", 0)] :
        b \in ParseBodies}

\* A fetch and the getToken of a later Do call, on the in-memory cache: the
\* token server's 200 reply with a body, what happens in between (nothing, or
\* the Cache.Expire() of a 401 or of a New), and the later clock reading.
Between == {"nothing", "401", "New"}
Fetched(info, put, stored, left, reused, val) ==
    [info |-> info, put |-> put, stored |-> stored, left |-> left,
     reused |-> reused, val |-> val]
NoFetched == Fetched(TokenInfo("", "", 0), FALSE, ZeroToken, ZeroToken, FALSE, "")
FetchGetProbes ==
    {[fn |-> "FetchGet", done |-> FALSE, body |-> b, now |-> n, later |-> n + dt,
      softExpire |-> se, between |-> ev, out |-> NoFetched] :
        b \in {Body("object", at, ex) : at \in {JTok(""), JTok("a")}, ex \in ParseExpires},
        n \in UnitTimes, dt \in 0..MaxTime, se \in {0, MaxSoft}, ev \in Between}

\* Put and Expire calls made one after the other on one in-memory cache,
\* then a Get: the calls still to make, what the cache holds (store), what
\* it held before the latest call (before), the calls made (applied) and the
\* value of the latest Put, or of the token held at first (last).
OpsTokens == {Token("b", ExpiredDeadline, FALSE), Token("c", StartTime + MaxTime + 1, TRUE)}
OpsCalls == {Call("expire", ZeroToken, FALSE)} \cup {Call("put", t, FALSE) : t \in OpsTokens}
OpsSeqs == UNION {[1..n -> OpsCalls] : n \in 1..(MaxOps + 1)}
OpsProbes ==
    {[fn |-> "Ops", done |-> FALSE, ops |-> ops, store |-> st, before |-> st,
      applied |-> <<>>, last |-> st.Value, out |-> CacheResult(st, ZeroToken, FALSE)] :
        ops \in OpsSeqs, st \in {ZeroToken, Token("a", StartTime + MaxTime + 1, TRUE)}}

\* The probes whose storage and faults are those of their backend.
WellFormed(pr) ==
    /\ pr.store \in PriorStores(pr.kind)
    /\ pr.io1 \in Faults(pr.kind)
    /\ pr.io2 \in ReadFaults(pr.kind)

\* cache.Expire() followed by cache.Get()
ApplyExpireGet ==
    /\ probe.fn = "ExpireGet" /\ ~probe.done
    /\ LET e == BackendExpire(probe.kind, probe.store, probe.now, probe.io1)
           g == BackendGet(probe.kind, e.store, probe.io2)
       IN  probe' = [probe EXCEPT !.done = TRUE,
                                  !.out = Outcome(e.err, g.err, g.t, g.store)]
    /\ UNCHANGED <<clientVars, flight, users, cancelled, clients>>

\* cache.Put(t) followed by cache.Get()
ApplyPutGet ==
    /\ probe.fn = "PutGet" /\ ~probe.done
    /\ LET u == BackendPut(probe.kind, probe.store, probe.t, probe.now, probe.io1)
           g == BackendGet(probe.kind, u.store, probe.io2)
       IN  probe' = [probe EXCEPT !.done = TRUE,
                                  !.out = Outcome(u.err, g.err, g.t, g.store)]
    /\ UNCHANGED <<clientVars, flight, users, cancelled, clients>>

\* token.go: t.IsValid(now, softExpire)
ApplyIsValid ==
    /\ probe.fn = "IsValid" /\ ~probe.done
    /\ probe' = [probe EXCEPT !.done = TRUE,
                              !.out = IsValid(probe.t, probe.now, probe.softExpire)]
    /\ UNCHANGED <<clientVars, flight, users, cancelled, clients>>

\* clientcredentials.go: New(options)
ApplyNew ==
    /\ probe.fn = "New" /\ ~probe.done
    /\ probe' = [probe EXCEPT !.done = TRUE,
                              !.out = New(probe.configured, "memory", FALSE, FALSE, TRUE)]
    /\ UNCHANGED <<clientVars, flight, users, cancelled, clients>>

\* clientcredentials.go: parseToken(buf)
ApplyParseToken ==
    /\ probe.fn = "parseToken" /\ ~probe.done
    /\ probe' = [probe EXCEPT !.done = TRUE, !.out = parseToken(probe.body)]
    /\ UNCHANGED <<clientVars, flight, users, cancelled, clients>>

\* fetchTokenRaw:200-221 on the reply, then Do:104-109 or New:75, then
\* getToken:123-135 of the next call
ApplyFetchGet ==
    /\ probe.fn = "FetchGet" /\ ~probe.done
    /\ LET raw == fetchTokenRawOutcome(HTTPReply("", StatusOK, probe.body), probe.now)
           put == IF raw.put THEN CachePut("memory", ZeroToken, raw.tok).store
                  ELSE ZeroToken
           left == IF probe.between = "nothing" THEN put
                   ELSE CacheExpire("memory", put).store
           g == CacheGet("memory", left)
           valid == ~g.err /\ IsValid(g.t, probe.later, probe.softExpire)
       IN  probe' = [probe EXCEPT
                       !.done = TRUE,
                       !.out = Fetched(parseToken(probe.body), raw.put, put, left,
                                       valid, IF valid THEN g.t.Value ELSE "")]
    /\ UNCHANGED <<clientVars, flight, users, cancelled, clients>>

\* memoryCache.Put(t) or memoryCache.Expire(), the next call of the sequence
ApplyOp ==
    /\ probe.fn = "Ops" /\ ~probe.done
    /\ probe.ops # <<>>
    /\ LET call == Head(probe.ops)
           r == IF call.op = "put" THEN CachePut("memory", probe.store, call.arg)
                ELSE CacheExpire("memory", probe.store)
       IN  probe' = [probe EXCEPT
                       !.ops = Tail(probe.ops),
                       !.before = probe.store,
                       !.store = r.store,
                       !.applied = Append(probe.applied, call.op),
                       !.last = IF call.op = "put" THEN call.arg.Value ELSE probe.last]
    /\ UNCHANGED <<clientVars, flight, users, cancelled, clients>>

\* memoryCache.Get() after the last call of the sequence
ApplyGet ==
    /\ probe.fn = "Ops" /\ ~probe.done
    /\ probe.ops = <<>>
    /\ probe' = [probe EXCEPT !.done = TRUE, !.out = CacheGet("memory", probe.store)]
    /\ UNCHANGED <<clientVars, flight, users, cancelled, clients>>

InitUnit ==
    /\ ClientParked
    /\ flight = NoFlight
    /\ users = NoUsers
    /\ cancelled = {}
    /\ clients = NoClients
    /\ probe \in IsValidProbes \cup NewProbes \cup ParseTokenProbes \cup FetchGetProbes
                 \cup OpsProbes
                 \cup {pr \in ExpireGetProbes : WellFormed(pr)}
                 \cup {pr \in PutGetProbes : WellFormed(pr)}

NextUnit ==
    \/ ApplyIsValid
    \/ ApplyNew
    \/ ApplyExpireGet
    \/ ApplyPutGet
    \/ ApplyParseToken
    \/ ApplyFetchGet
    \/ ApplyOp
    \/ ApplyGet

SpecUnit == InitUnit /\ [][NextUnit]_vars

\* ------------------------------------------- a client over an old storage
\* New:75: options.Cache.Expire() on the storage as an earlier client or an
\* earlier process left it; the error Expire returns is dropped.
NewStore(kind, prior, now, io) == BackendExpire(kind, prior, now, io).store

\* New has returned over any backend; one caller then makes its Do calls
\* one after the other, and nobody else uses the storage.
InitStart ==
    /\ \E kind \in Backends :
         \E prior \in PriorStores(kind), io \in Faults(kind) :
            /\ options = New(-1, kind, FALSE, FALSE, TRUE)
            /\ cache = NewStore(kind, prior, StartTime, io)
    /\ group = 0
    /\ wall = StartTime
    /\ clock = StartTime
    /\ pc = [p \in Procs |-> "idle"]
    /\ count = MaxSeqCalls
    /\ got = [p \in Procs |-> ZeroToken]
    /\ res = [p \in Procs |-> NoResult]
    /\ src = [p \in Procs |-> "none"]
    /\ ret = NoReturn
    /\ tokenCalls = 0
    /\ resourceCalls = 0
    /\ seen = NoHistory
    /\ probe = NoProbe
    /\ flight = NoFlight
    /\ users = NoUsers
    /\ cancelled = {}
    /\ clients = NoClients

NextStart ==
    \/ DoGetToken(1) /\ UNCHANGED <<seen, unitVars>>
    \/ getTokenCheck(1) /\ UNCHANGED <<seen, unitVars>>
    \/ fetchToken(1) /\ UNCHANGED <<seen, unitVars>>
    \/ fetchTokenRaw(1) /\ UNCHANGED <<seen, unitVars>>
    \/ fetchTokenReturn(1) /\ UNCHANGED <<seen, unitVars>>
    \/ DoSend(1) /\ UNCHANGED <<seen, unitVars>>
    \/ DoResponse(1) /\ UNCHANGED <<seen, unitVars>>

SpecStart == InitStart /\ [][NextStart]_vars

\* ------------------------------------------------- two Clients, one process
\* New:66-68: options.Cache == nil is replaced by the package variable
\* token.DefaultTokenCache, the same value for every Client
CacheOfNew(c, configured) == IF configured THEN c ELSE 0

\* The token server of Client c's configuration issues tokens of its own.
TokenOf(c) == IF c = 1 THEN "a" ELSE "b"
RepliesTo(c) ==
    {HTTPReply("", StatusOK, Body("object", JTok(TokenOf(c)), ex)) :
        ex \in {JAbsent} \cup {JNum(n) : n \in Lifetimes}}

\* Both Clients are built with no cache configured, or each with a cache of
\* its own; nothing has been fetched.
InitClients ==
    /\ ClientParked
    /\ probe = NoProbe
    /\ flight = NoFlight
    /\ users = NoUsers
    /\ cancelled = {}
    /\ \E configured \in BOOLEAN :
         clients = [NoClients EXCEPT
                      !.cacheOf = [c \in ClientIDs |-> CacheOfNew(c, configured)],
                      !.left = MaxSeqCalls]

\* New(options) for Client c: options.Cache.Expire() on the cache it uses
ClientNew(c) ==
    /\ c \notin clients.built
    /\ LET k == clients.cacheOf[c] IN
         clients' = [clients EXCEPT
                       !.built = @ \cup {c},
                       !.slots[k] = NewCache("memory", clients.slots[k])]
    /\ UNCHANGED wall

\* getToken of Client c, run from Cache.Get to its return: the cached value
\* when IsValid accepts it, else the token its own token server issues,
\* which fetchTokenRaw puts into the cache.
ClientGetToken(c) ==
    /\ c \in clients.built
    /\ clients.left > 0
    /\ LET k == clients.cacheOf[c]
           g == CacheGet("memory", clients.slots[k])
       IN  IF ~g.err /\ IsValid(g.t, wall, options.SoftExpireInSeconds)
           THEN clients' = [clients EXCEPT !.held[c] = g.t.Value, !.left = @ - 1]
           ELSE \E reply \in RepliesTo(c) :
                  LET out == fetchTokenRawOutcome(reply, wall) IN
                  clients' = [clients EXCEPT
                                !.held[c] = out.res.val,
                                !.slots[k] = CachePut("memory", clients.slots[k], out.tok).store,
                                !.left = @ - 1]
    /\ UNCHANGED wall

\* time.Now() advances.
ClientsTick ==
    /\ wall < StartTime + MaxTime
    /\ wall' = wall + 1
    /\ UNCHANGED clients

othersVars == <<options, cache, group, clock, pc, count, got, res, src, ret,
                tokenCalls, resourceCalls, seen, probe, flight, users, cancelled>>

NextClients ==
    \/ \E c \in ClientIDs : ClientNew(c) /\ UNCHANGED othersVars
    \/ \E c \in ClientIDs : ClientGetToken(c) /\ UNCHANGED othersVars
    \/ ClientsTick /\ UNCHANGED othersVars

SpecClients == InitClients /\ [][NextClients]_vars

\* ------------------------------------------------ cancelled request contexts
\* One caller makes its Do calls with requests whose context the application
\* may cancel while the call is under way.  fetchTokenRaw builds its POST
\* with context.TODO() (line 177), which is never cancelled; send passes the
\* caller's req to HTTPClient.Do (line 119), which returns the context's
\* error once that context is cancelled.
InitCancel ==
    /\ InitWith({-1}, {"memory"}, {FALSE}, MaxCalls)
    /\ options.TokenURLValid

\* Do(req) is called with a fresh request.
CancelBegin(p) == cancelled' = cancelled \ {p}

\* The application cancels the context of the request of the call under way.
Cancel(p) ==
    /\ pc[p] # "idle"
    /\ p \notin cancelled
    /\ cancelled' = cancelled \cup {p}
    /\ UNCHANGED <<options, cache, group, wall, clock, pc, count, got, res, src, ret,
                   tokenCalls, resourceCalls, seen, probe, flight, users, clients>>

\* send:119 with a cancelled context, before or while the request is out:
\* HTTPClient.Do(req) returns the error and Do returns it (Do:99-102).
DoSendCancelled(p) ==
    /\ p \in cancelled
    /\ \/ pc[p] = "sent"
       \/ pc[p] = "have" /\ ~TokenFailed(p)
    /\ ret' = Return(p, "nil", 0, "context canceled")
    /\ pc' = [pc EXCEPT ![p] = "idle"]
    /\ res' = [res EXCEPT ![p] = NoResult]
    /\ src' = [src EXCEPT ![p] = "none"]
    /\ UNCHANGED <<options, cache, group, wall, clock, count, got,
                   tokenCalls, resourceCalls, seen, probe, flight, users, cancelled, clients>>

\* send:119 with a live context, or Do:95-97 returning errToken.
DoSendLive(p) ==
    /\ p \notin cancelled \/ TokenFailed(p)
    /\ DoSend(p)

NextCancel ==
    \/ DoGetToken(1) /\ CancelBegin(1) /\ UNCHANGED <<seen, probe, flight, users, clients>>
    \/ getTokenCheck(1) /\ UNCHANGED <<seen, unitVars>>
    \/ fetchToken(1) /\ UNCHANGED <<seen, unitVars>>
    \/ fetchTokenRaw(1) /\ UNCHANGED <<seen, unitVars>>
    \/ fetchTokenReturn(1) /\ UNCHANGED <<seen, unitVars>>
    \/ DoSendLive(1) /\ UNCHANGED <<seen, unitVars>>
    \/ DoSendCancelled(1)
    \/ DoResponse(1) /\ UNCHANGED <<seen, unitVars>>
    \/ Cancel(1)

\* The caller's goroutine runs whenever it is not waiting for a server, and
\* the HTTP client reacts to a cancelled context; neither server is bound
\* to reply.
SpecCancel ==
    /\ InitCancel
    /\ [][NextCancel]_vars
    /\ WF_vars(getTokenCheck(1) /\ UNCHANGED <<seen, unitVars>>)
    /\ WF_vars(fetchToken(1) /\ UNCHANGED <<seen, unitVars>>)
    /\ WF_vars(fetchTokenReturn(1) /\ UNCHANGED <<seen, unitVars>>)
    /\ WF_vars(DoSendLive(1) /\ UNCHANGED <<seen, unitVars>>)
    /\ WF_vars(DoSendCancelled(1))

\* ------------------------------------------ a rejected call among others
\* Callers on one Client with the in-memory cache.  Of caller 1's call the
\* history keeps the token a fetch of another caller has stored since
\* caller 1's resource request went out (stored; the zero token when none).
InitRace == InitWith({-1}, {"memory"}, {FALSE}, MaxCalls)

ObserveStore ==
    seen' = IF pc[1] = "have" /\ pc'[1] = "sent"
            THEN [seen EXCEPT !.stored = ZeroToken]
            ELSE IF /\ pc[1] = "sent" /\ pc'[1] = "sent"
                    /\ \E q \in Procs : pc[q] = "raw" /\ pc'[q] = "ret" /\ res'[q].err = ""
            THEN [seen EXCEPT !.stored = cache']
            ELSE seen

NextRace ==
    \/ \E p \in Procs : DoGetToken(p) /\ ObserveStore /\ UNCHANGED unitVars
    \/ \E p \in Procs : getTokenCheck(p) /\ ObserveStore /\ UNCHANGED unitVars
    \/ \E p \in Procs : fetchToken(p) /\ ObserveStore /\ UNCHANGED unitVars
    \/ \E p \in Procs : fetchTokenRaw(p) /\ ObserveStore /\ UNCHANGED unitVars
    \/ \E p \in Procs : fetchTokenReturn(p) /\ ObserveStore /\ UNCHANGED unitVars
    \/ \E p \in Procs : DoSend(p) /\ ObserveStore /\ UNCHANGED unitVars
    \/ \E p \in Procs : DoResponse(p) /\ ObserveStore /\ UNCHANGED unitVars
    \/ TickWall /\ UNCHANGED <<seen, unitVars>>

SpecRace == InitRace /\ [][NextRace]_vars

\* --------------------------------------------- users of one cache storage
\* Goroutines (together: one Cache instance, one mutex) or clients of their
\* own (each its own Cache instance over the same file or key) run Get, Put
\* and Expire; an operation is cut at its lock, its read of the storage and
\* its writes to it.
\* memoryCache: Lock .. Unlock around one access (part_006:21-42).
\* filecache:   Lock .. Unlock around tokenFromFile and saveToken, which is
\*              os.Create then out.Write (filecache/cache.go:22-67).
\* rediscache:  no lock; Expire is Get then Put (rediscache/cache.go:75-122).
Steps(kind, op) ==
    IF kind = "memory"
    THEN (IF op = "get" THEN <<"lock", "read", "unlock">>
          ELSE IF op = "put" THEN <<"lock", "write", "unlock">>
          ELSE <<"lock", "modify", "unlock">>)
    ELSE IF kind = "file"
    THEN (IF op = "get" THEN <<"lock", "read", "unlock">>
          ELSE IF op = "put" THEN <<"lock", "create", "write", "unlock">>
          ELSE <<"lock", "read", "create", "write", "unlock">>)
    ELSE (IF op = "get" THEN <<"read">>
          ELSE IF op = "put" THEN <<"write">>
          ELSE <<"read", "write">>)

\* The Cache instance a user calls: one for all, or one each.
Instance(p) == IF users.together THEN 1 ELSE p

\* The token a storage holds, as Get would decode it.
Content(kind, store) == BackendGet(kind, store, NoFault)

\* An operation returns when its steps are done.
Proceed(u, rest) ==
    IF rest = <<>>
    THEN [u EXCEPT !.op = "none", !.rest = <<>>, !.n = @ + 1,
                   !.last = Call(u.op, u.arg, u.err)]
    ELSE [u EXCEPT !.rest = rest]

Advance(u) == Proceed(u, Tail(u.rest))

\* if errFile != nil { return errFile } / if errGet != nil { return errGet }:
\* of the steps left only the deferred Unlock runs.
Unwind(rest) == SelectSeq(rest, LAMBDA s : s = "unlock")

NextStep(p) == IF users.w[p].rest = <<>> THEN "none" ELSE Head(users.w[p].rest)

\* Tokens a user puts; the token the storage held before.
OldToken == Token("a", StartTime + MaxTime + MaxSoft + 1, TRUE)
UserPuts == {Token("b", ExpiredDeadline, FALSE), Token("b", StartTime + MaxTime + 1, TRUE)}

UserBegin(p) ==
    /\ users.w[p].op = "none"
    /\ users.left > 0
    /\ \E op \in {"get", "put", "expire"}, arg \in UserPuts :
         /\ op # "put" => arg = Token("b", ExpiredDeadline, FALSE)
         /\ users' = [users EXCEPT
                        !.left = @ - 1,
                        !.w[p] = [@ EXCEPT !.op = op,
                                           !.arg = IF op = "put" THEN arg ELSE ZeroToken,
                                           !.rest = Steps(options.Cache, op),
                                           !.t = ZeroToken, !.err = FALSE]]
    /\ UNCHANGED cache

\* (a cache whose operations do not wait for the mutex)
MutexFreeAlways(p) == TRUE

\* sync.Mutex: Lock returns when nobody holds the mutex of the instance
MutexFree(p) == users.mutex[Instance(p)] = 0

UserLock(p) ==
    /\ NextStep(p) = "lock"
    /\ MutexFree(p)
    /\ users' = [users EXCEPT !.mutex[Instance(p)] = p, !.w[p] = Advance(@)]
    /\ UNCHANGED cache

UserUnlock(p) ==
    /\ NextStep(p) = "unlock"
    /\ users' = [users EXCEPT !.mutex[Instance(p)] = 0, !.w[p] = Advance(@)]
    /\ UNCHANGED cache

\* mc.t / tokenFromFile / redis GET: an Expire that cannot read returns the
\* error without writing.
UserRead(p) ==
    /\ NextStep(p) = "read"
    /\ LET g == Content(options.Cache, cache)
           u == users.w[p]
       IN  users' = [users EXCEPT !.w[p] =
                       IF g.err /\ u.op = "expire"
                       THEN Proceed([u EXCEPT !.err = TRUE], Unwind(u.rest))
                       ELSE Advance([u EXCEPT !.t = g.t, !.err = g.err])]
    /\ UNCHANGED cache

\* saveToken: os.Create truncates the file
UserCreate(p) ==
    /\ NextStep(p) = "create"
    /\ cache' = File(TRUE, EmptyText)
    /\ users' = [users EXCEPT !.w[p] = Advance(@)]

\* (an Expire that expires whatever the storage holds when it writes)
ExpireWritesCurrent(p) == TokenExpire(Content(options.Cache, cache).t)

\* Expire: t.Expire() on the token read, then saveToken / Put
ExpireWrites(p) == TokenExpire(users.w[p].t)

\* mc.t = t / out.Write(buf) / redis SET
UserWrite(p) ==
    /\ NextStep(p) = "write"
    /\ LET t == IF users.w[p].op = "put" THEN users.w[p].arg ELSE ExpireWrites(p)
       IN  cache' = BackendPut(options.Cache, cache, t, wall, NoFault).store
    /\ users' = [users EXCEPT !.w[p] = Advance(@)]

\* mc.t.Expire(): the fields of the stored token are set in place
UserModify(p) ==
    /\ NextStep(p) = "modify"
    /\ cache' = TokenExpire(cache)
    /\ users' = [users EXCEPT !.w[p] = Advance(@)]

\* The rest of the program, which these users do not run.
RestParked ==
    /\ group = 0
    /\ wall = StartTime
    /\ clock = StartTime
    /\ pc = [p \in Procs |-> "idle"]
    /\ count = 0
    /\ got = [p \in Procs |-> ZeroToken]
    /\ res = [p \in Procs |-> NoResult]
    /\ src = [p \in Procs |-> "none"]
    /\ ret = NoReturn
    /\ tokenCalls = 0
    /\ resourceCalls = 0
    /\ seen = NoHistory
    /\ probe = NoProbe
    /\ flight = NoFlight
    /\ cancelled = {}
    /\ clients = NoClients

InitCache ==
    /\ \E kind \in {"memory", "file", "redis"}, tog \in BOOLEAN :
         /\ kind = "memory" => tog
         /\ kind = "redis" => ~tog
         /\ options = New(-1, kind, FALSE, FALSE, TRUE)
         /\ cache \in {st \in PriorStores(kind) :
                         \/ Content(kind, st).err
                         \/ Content(kind, st).t = OldToken}
         /\ users = [NoUsers EXCEPT !.together = tog, !.left = MaxOps]
    /\ RestParked

restVars == <<options, group, wall, clock, pc, count, got, res, src, ret,
              tokenCalls, resourceCalls, seen, probe, flight, cancelled, clients>>

NextCache ==
    \/ \E p \in Procs : UserBegin(p) /\ UNCHANGED restVars
    \/ \E p \in Procs : UserLock(p) /\ UNCHANGED restVars
    \/ \E p \in Procs : UserRead(p) /\ UNCHANGED restVars
    \/ \E p \in Procs : UserCreate(p) /\ UNCHANGED restVars
    \/ \E p \in Procs : UserWrite(p) /\ UNCHANGED restVars
    \/ \E p \in Procs : UserModify(p) /\ UNCHANGED restVars
    \/ \E p \in Procs : UserUnlock(p) /\ UNCHANGED restVars

SpecCache == InitCache /\ [][NextCache]_vars


\* ---------------------------------------------------------------- claims
\* Callers executing fetchTokenRaw (its POST outstanding, or returned and
\* not yet handed back by fetchToken).
InFlight == {p \in Procs : pc[p] \in {"raw", "ret"}}

\* C1: with DisableSingleFlight = false at most one caller of the Client is
\* executing fetchTokenRaw in any reachable state.
C1_AtMostOneFetchInFlight ==
    ~options.DisableSingleFlight => Cardinality(InFlight) <= 1

\* C1 witness: one caller's POST is outstanding while another caller that
\* also asked for a fetch waits for it.
C1_Witness ==
    /\ ~options.DisableSingleFlight
    /\ \E p, w \in Procs : pc[p] = "raw" /\ pc[w] = "wait"

\* C2: with coordination enabled a caller that asks for a fetch while one
\* is in flight sends no POST and starts no fetchTokenRaw; it stays waiting
\* until the caller in flight returns and then holds exactly that caller's
\* (string, error).
C2_WaiterSharesOutcome ==
    [][\A w \in Procs :
         /\ (/\ pc[w] = "fetch" /\ pc'[w] # "fetch"
             /\ ~options.DisableSingleFlight /\ group # 0)
            => (pc'[w] = "wait" /\ tokenCalls' = tokenCalls)
         /\ (pc[w] = "wait" /\ pc'[w] # "wait")
            => (/\ group \in Procs
                /\ pc[group] = "ret"
                /\ pc'[w] = "have"
                /\ res'[w] = res[group]
                /\ tokenCalls' = tokenCalls)]_vars

\* C2 witness: a caller holds a token it did not fetch itself.
C2_Witness ==
    \E w \in Procs : pc[w] = "have" /\ src[w] = "shared" /\ res[w].val \in TokenValues

\* C3: when fetchTokenRaw has returned, with a token or with an error, the
\* group forgets the call; no caller stays attached to a finished call, and
\* a caller that asks for a fetch while none is in flight runs its own
\* fetchTokenRaw (with a valid TokenURL, a new POST).
C3_MarkerCleared ==
    /\ [](group = 0 => \A w \in Procs : pc[w] # "wait")
    /\ [][\A p \in Procs :
            /\ (pc[p] = "ret" /\ pc'[p] # "ret" /\ ~options.DisableSingleFlight)
               => group' = 0
            /\ (pc[p] = "fetch" /\ pc'[p] # "fetch" /\ group = 0)
               => (/\ src'[p] = "raw"
                   /\ IF options.TokenURLValid
                      THEN pc'[p] = "raw" /\ tokenCalls' = tokenCalls + 1
                      ELSE pc'[p] = "ret" /\ res'[p].err = "errReq")]_vars

\* C3 witness: with coordination enabled a second POST is outstanding after
\* the first fetch ended in an error.
C3_Witness ==
    /\ ~options.DisableSingleFlight
    /\ tokenCalls = 2
    /\ ret.err = "status"
    /\ \E p \in Procs : pc[p] = "raw"

\* The resource server answered the call that has just returned, or the
\* call before the one under way, with 401.
Rejected(r) == r.resp = "resp" /\ r.status = StatusUnauthorized

\* C4: on a Client with the in-memory cache, once a Do call has fetched and
\* stored a token without expires_in and no resource response since that
\* fetch (the fetching call's own included) was 401, every later sequential
\* Do call takes the token from the cache, attaches it and sends no POST;
\* when the first of two calls is such a fetch the two calls make exactly 1
\* token-server call and 2 resource requests.
C4_CachedTokenReused ==
    options.Cache = "memory" =>
      /\ (seen.prev.stored.Value # "" /\ ~Rejected(seen.prev.ret))
            => seen.prev.left = seen.prev.stored
      /\ (seen.prev.src = "cache" /\ ~Rejected(seen.prev.ret))
            => seen.prev.left.Value = seen.prev.val
      /\ (pc[1] # "idle" /\ seen.prev.src # "none" /\ ~seen.prev.left.Expirable)
            => /\ pc[1] \in {"check", "have", "sent"}
               /\ tokenCalls = seen.t0
               /\ cache = seen.prev.left
               /\ pc[1] \in {"have", "sent"}
                    => src[1] = "cache" /\ res[1] = Result("", cache.Value)
               /\ (pc[1] = "sent" /\ seen.prev.src = "raw" /\ count = MaxSeqCalls - 2)
                    => tokenCalls = 1 /\ resourceCalls = 2

\* C4 witness: the second call's request is out with the token the first
\* call fetched; one POST and two resource requests have been sent.
C4_Witness ==
    /\ options.Cache = "memory"
    /\ pc[1] = "sent" /\ src[1] = "cache"
    /\ seen.prev.src = "raw" /\ ~seen.prev.left.Expirable
    /\ res[1].val = seen.prev.stored.Value
    /\ tokenCalls = 1 /\ resourceCalls = 2

\* C4 as stated: after a call that fetched and stored a token without
\* expires_in, a call whose resource response is not 401 took its token
\* from the cache and sent no POST, and when the request of the second of
\* two calls is out 1 POST and 2 resource requests have been sent.
C4_Original ==
    /\ [][(/\ options.Cache = "memory"
           /\ seen.prev.stored.Value # "" /\ ~seen.prev.stored.Expirable
           /\ pc[1] = "sent" /\ pc'[1] = "idle"
           /\ ret'.resp = "resp" /\ ret'.status # StatusUnauthorized)
          => (src[1] = "cache" /\ tokenCalls = seen.t0)]_vars
    /\ []((/\ options.Cache = "memory"
           /\ seen.prev.stored.Value # "" /\ ~seen.prev.stored.Expirable
           /\ count = MaxSeqCalls - 2
           /\ pc[1] = "sent")
          => (tokenCalls = 1 /\ resourceCalls = 2))

\* C5: with soft expiry configured -1 (toleration 0) and an injected
\* TimeSource, a call that finds a token with a deadline in the cache while
\* the injected clock reads less than the deadline takes that token and sends
\* no POST; a call that finds it after the clock has passed the deadline
\* fetches, and has sent exactly one POST when its resource request goes out.
C5_ExpiryFollowsInjectedClock ==
    /\ [][(/\ options.TimeSourceInjected
           /\ options.SoftExpireInSeconds = 0
           /\ got[1].Expirable
           /\ pc[1] = "check" /\ pc'[1] # "check")
          => /\ clock < got[1].Deadline
                  => /\ pc'[1] = "have" /\ src'[1] = "cache"
                     /\ res'[1] = Result("", got[1].Value)
                     /\ tokenCalls' = seen.t0
             /\ clock > got[1].Deadline
                  => pc'[1] = "fetch" /\ tokenCalls' = seen.t0]_vars
    /\ [](/\ (pc[1] \in {"have", "sent"} /\ src[1] = "cache")
                => tokenCalls = seen.t0
          /\ pc[1] = "fetch" => tokenCalls = seen.t0
          /\ (/\ pc[1] \in {"raw", "have", "sent"}
              /\ src[1] = "raw"
              /\ options.TokenURLValid)
                => tokenCalls = seen.t0 + 1
          /\ pc[1] = "sent" => resourceCalls = seen.r0 + 1)

\* C5 witness: the injected clock has passed the deadline of the token an
\* earlier call stored, and the call under way has fetched a new one with a
\* single POST before sending its request.
C5_Witness ==
    /\ options.TimeSourceInjected /\ options.SoftExpireInSeconds = 0
    /\ options.Cache = "memory"
    /\ seen.prev.left.Expirable /\ seen.prev.left.Deadline > StartTime
    /\ seen.prev.src = "cache"
    /\ clock > seen.prev.left.Deadline
    /\ pc[1] = "sent" /\ src[1] = "raw"
    /\ tokenCalls = seen.t0 + 1

FailedReply(reply) ==
    \/ reply.err # ""
    \/ reply.status # StatusOK
    \/ parseToken(reply.body).err # ""

\* Every failed reply makes fetchTokenRaw return an error and put nothing
\* (the time of the reply plays no part in a failure).
FailedReplyIsError ==
    \A reply \in TokenReplies :
       FailedReply(reply)
         => /\ fetchTokenRawOutcome(reply, StartTime).res.err # ""
            /\ ~fetchTokenRawOutcome(reply, StartTime).put

\* The errors fetchToken can return.
TokenErrors ==
    {"errReq"} \cup {fetchTokenRawOutcome(reply, StartTime).res.err :
                       reply \in {r \in TokenReplies : FailedReply(r)}}

\* C7: a token-server transport error, a non-200 status and an unparsable
\* body each make fetchTokenRaw return an error and store nothing; a caller
\* holding a token error returns (nil, that error) from Do and no resource
\* request is sent for it.
C7_TokenFailureReturned ==
    /\ [](/\ FailedReplyIsError
          /\ \A p \in Procs : res[p].err \in TokenErrors \cup {""}
          /\ \A p \in Procs : pc[p] = "sent" => res[p].err = "")
    /\ [][\A p \in Procs :
            (pc[p] = "have" /\ res[p].err # "" /\ pc'[p] # "have")
              => /\ pc'[p] = "idle"
                 /\ ret' = Return(p, "nil", 0, res[p].err)
                 /\ resourceCalls' = resourceCalls]_vars

\* C7 witness: Do has returned the error of a token response that did not
\* parse, and no resource request has been sent.
C7_Witness ==
    /\ ret.who \in Procs /\ ret.resp = "nil"
    /\ ret.err = "parse token: json"
    /\ tokenCalls = 1 /\ resourceCalls = 0

\* C8: with a cache whose Get fails a caller never validates or uses a
\* cached token: it goes from the read straight to fetchToken, any token it
\* attaches comes from a fetch of that call, and no error of the cache is
\* returned from Do.
C8_GetErrorFallsBackToFetch ==
    options.Cache = "error" =>
      /\ \A p \in Procs :
           /\ pc[p] # "check"
           /\ src[p] # "cache"
           /\ pc[p] \in {"have", "sent"} => src[p] \in {"raw", "shared"}
           /\ pc[p] = "sent" => res[p].err = "" /\ res[p].val \in TokenValues
      /\ ret.resp = "nil"
           => ret.err \in TokenErrors \cup {"errResp"}

\* C8 witness: with the always-failing cache a request is out with a token
\* the caller fetched itself.
C8_Witness ==
    /\ options.Cache = "error"
    /\ \E p \in Procs : pc[p] = "sent" /\ src[p] = "raw" /\ res[p].val \in TokenValues

\* C9: with a cache whose Put fails, fetchTokenRaw returns the token string
\* it parsed and no error: the only errors a caller holds are those of the
\* request to the token server, and a token fetched by the caller is
\* attached to its resource request.
C9_PutErrorNotReturned ==
    options.Cache = "error" =>
      /\ \A p \in Procs :
           /\ res[p].err \in TokenErrors \cup {""}
           /\ (pc[p] = "ret" /\ res[p].err = "") => res[p].val \in TokenValues
      /\ cache = ZeroToken

\* C9 witness: with the always-failing cache Do has handed back a 200
\* response after a single POST.
C9_Witness ==
    /\ options.Cache = "error"
    /\ ret.resp = "resp" /\ ret.status = StatusOK /\ ret.err = ""
    /\ tokenCalls = 1 /\ resourceCalls = 1

\* C10: when a resource request returns, Do returns; it sends nothing more.
\* With a response of status 401 the cache is left as Cache.Expire leaves it
\* and the response is returned with a nil error whether or not Expire
\* failed; with any other status, or a transport error, the cache is not
\* touched.
C10_ExpireExactlyOn401 ==
    [][\A p \in Procs :
         (pc[p] = "sent" /\ pc'[p] # "sent")
           => /\ pc'[p] = "idle"
              /\ ret'.who = p
              /\ tokenCalls' = tokenCalls /\ resourceCalls' = resourceCalls
              /\ IF Rejected(ret')
                 THEN /\ ret'.err = ""
                      /\ cache' = CacheExpire(options.Cache, cache).store
                      /\ options.Cache = "memory"
                           => cache' = [cache EXCEPT !.Deadline = ExpiredDeadline,
                                                     !.Expirable = TRUE]
                 ELSE /\ cache' = cache
                      /\ ret'.resp = "nil" <=> ret'.err # ""]_vars

\* C10 witness: the in-memory cache holds a fetched token that the 401
\* just returned has expired.
C10_Witness ==
    /\ options.Cache = "memory"
    /\ Rejected(ret) /\ ret.err = ""
    /\ cache = Token("b", ExpiredDeadline, TRUE)
    /\ tokenCalls = 1 /\ resourceCalls = 1
    /\ \A p \in Procs : pc[p] = "idle"

\* C11: IsValid(now, toleration) is true for every token that is not
\* expirable, whatever its deadline; for an expirable token it is true
\* exactly when the deadline is strictly after now + toleration, so a
\* deadline equal to now + toleration is invalid.
C11_IsValidStrict ==
    (probe.fn = "IsValid" /\ probe.done) =>
       /\ ~probe.t.Expirable => probe.out = TRUE
       /\ probe.t.Expirable
            => (probe.out <=> probe.t.Deadline > probe.now + probe.softExpire)
       /\ (probe.t.Expirable /\ probe.t.Deadline = probe.now + probe.softExpire)
            => probe.out = FALSE

\* C11 witness: an expirable token whose deadline equals now + toleration
\* has been found invalid.
C11_Witness ==
    /\ probe.fn = "IsValid" /\ probe.done
    /\ probe.t.Expirable
    /\ probe.softExpire > 0
    /\ probe.t.Deadline = probe.now + probe.softExpire
    /\ probe.out = FALSE

CallsBegun == MaxCalls - count
AskingForToken == {p \in Procs : pc[p] = "fetch"}
TestEnded ==
    /\ count = 0
    /\ \A p \in Procs : pc[p] = "idle" /\ flight.made[p] = CallsEach

C14_EveryCallFetches ==
    options.DisableSingleFlight =>
       /\ tokenCalls = CallsBegun - Cardinality(AskingForToken)
       /\ \A p \in Procs : pc[p] # "wait" /\ src[p] # "shared"
       /\ TestEnded => tokenCalls = NumProcs * CallsEach

\* C14 witness: with coordination disabled two POSTs are outstanding at
\* once.
C14_Witness ==
    /\ options.DisableSingleFlight
    /\ \E p, q \in Procs : p # q /\ pc[p] = "raw" /\ pc[q] = "raw"
    /\ tokenCalls = 2

\* No toleration and no reading of the clock makes t valid.
NeverValid(t) ==
    \A n \in UnitTimes, se \in UnitSoftExpires \cup {DefaultSoftExpire} :
       ~IsValid(t, n, se)

\* C15: on every backend and from every prior state of its storage, when
\* expire() returns no error and the get() that follows returns no error,
\* the token get() yields is the expired copy of the stored one and IsValid
\* reports it false under every toleration; on the always-failing backend
\* both operations return an error.
C15_ExpiredAfterExpire ==
    (probe.fn = "ExpireGet" /\ probe.done) =>
       /\ (~probe.out.firstErr /\ ~probe.out.getErr)
            => /\ NeverValid(probe.out.t)
               /\ probe.out.t.Expirable
               /\ probe.out.t.Deadline = ExpiredDeadline
               /\ probe.out.t.Value \in {"", "a"}
       /\ probe.kind = "error" => (probe.out.firstErr /\ probe.out.getErr)
       /\ probe.kind = "memory" => (~probe.out.firstErr /\ ~probe.out.getErr)

\* C15 witness: the file held a token valid for ever; expire() and get()
\* returned no error and get() yielded its expired copy.
C15_Witness ==
    /\ probe.fn = "ExpireGet" /\ probe.done
    /\ probe.kind = "file"
    /\ probe.store = File(TRUE, ExportJSON(Token("a", ExpiredDeadline, FALSE)))
    /\ ~probe.out.firstErr /\ ~probe.out.getErr
    /\ probe.out.t = Token("a", ExpiredDeadline, TRUE)

\* C15 as stated: with no fault injected, on every backend and from every
\* prior state, the token get() yields after expire() is invalid under
\* every toleration.
C15_Original ==
    (probe.fn = "ExpireGet" /\ probe.done /\ probe.io1 = NoFault /\ probe.io2 = NoFault)
       => NeverValid(probe.out.t)

\* C16: on the memory, file and remote backends, when put(t) returns no
\* error and the get() that follows returns no error, get() returns t's
\* deadline and expirable flag, and t's value when that is valid UTF-8; the
\* memory backend returns t itself.  ExportJSON then NewTokenFromJSON
\* returns every such token unchanged and without error.
C16_PutThenGet ==
    (probe.fn = "PutGet" /\ probe.done) =>
       /\ (~probe.out.firstErr /\ ~probe.out.getErr)
            => /\ probe.out.t.Deadline = probe.t.Deadline
               /\ probe.out.t.Expirable = probe.t.Expirable
               /\ probe.t.Value # BadUTF8 => probe.out.t = probe.t
               /\ probe.kind = "memory" => probe.out.t = probe.t
       /\ probe.t.Value # BadUTF8
            => NewTokenFromJSON(ExportJSON(probe.t)) = Decoded(probe.t, FALSE)
       /\ (probe.kind \in {"file", "redis"} /\ probe.io1 = NoFault /\ probe.io2 = NoFault)
            => (~probe.out.firstErr /\ ~probe.out.getErr)

\* C16 witness: an expirable token with a deadline ahead has gone through
\* the remote backend and come back equal.
C16_Witness ==
    /\ probe.fn = "PutGet" /\ probe.done
    /\ probe.kind = "redis"
    /\ ~probe.out.firstErr /\ ~probe.out.getErr
    /\ probe.t.Expirable /\ probe.t.Deadline > StartTime
    /\ probe.out.t = probe.t

\* C16 as stated: with no fault injected, on every backend get() after
\* put(t) returns a token equal to t.
C16_Original ==
    (probe.fn = "PutGet" /\ probe.done /\ probe.io1 = NoFault /\ probe.io2 = NoFault)
       => (~probe.out.getErr /\ probe.out.t = probe.t)

\* C17: after New has returned, no request is sent with a token taken from
\* the cache before the client has sent a POST to the token URL, and the
\* first Do call never sends with a token taken from the cache.
C17_FirstCallFetches ==
    (pc[1] = "sent" /\ (tokenCalls = 0 \/ count = MaxSeqCalls - 1)) => src[1] # "cache"

\* C17 witness: over the file backend the first Do call has sent its
\* request with the token an earlier process left in the file, and no POST
\* has been sent to the token URL.
C17_Witness ==
    /\ options.Cache = "file"
    /\ count = MaxSeqCalls - 1
    /\ pc[1] = "sent" /\ src[1] = "cache"
    /\ res[1] = Result("", "a")
    /\ tokenCalls = 0
    /\ resourceCalls = 1

\* What a fetch returns for the 200 replies of the token endpoint that parse.
ServedResults ==
    {Result("", parseToken(reply.body).accessToken) :
        reply \in {r \in TokenReplies : /\ r.err = ""
                                        /\ r.status = StatusOK
                                        /\ parseToken(r.body).err = ""}}

\* C18: a Do call sends its request only from the point where it holds a
\* token without error, and it holds one only in three ways: from the cache
\* check of that call, on a token that the call's own Cache.Get returned and
\* that is not expirable or has its deadline after now plus the toleration,
\* the value attached being that token's value; from the fetch the call ran
\* itself; or, having waited, from the fetch of the caller it waited for,
\* returning just then.  A fetch result without error is the access token
\* of a 200 reply of the token endpoint to the POST of that fetch.
C18_AttachedTokenValidOrFetched ==
    [][\A p \in Procs :
         /\ (pc[p] # "sent" /\ pc'[p] = "sent") =>
               /\ pc[p] = "have"
               /\ res[p].err = ""
               /\ src[p] \in {"cache", "raw", "shared"}
         /\ (pc[p] # "check" /\ pc'[p] = "check") =>
               /\ pc[p] = "idle"
               /\ \E io \in Faults(options.Cache) :
                    got'[p] = BackendGet(options.Cache, cache, io).t
         /\ (pc[p] = "check" /\ pc'[p] = "check") => got'[p] = got[p]
         /\ (pc[p] # "have" /\ pc'[p] = "have") =>
               \/ /\ pc[p] = "check" /\ src'[p] = "cache"
                  /\ \/ ~got[p].Expirable
                     \/ got[p].Deadline > TimeSource + options.SoftExpireInSeconds
                  /\ res'[p] = Result("", got[p].Value)
               \/ /\ pc[p] = "ret" /\ src'[p] = "raw"
                  /\ res'[p] = res[p]
               \/ /\ pc[p] = "wait" /\ src'[p] = "shared"
                  /\ \E q \in Procs : /\ pc[q] = "ret" /\ pc'[q] = "have"
                                       /\ src[q] = "raw"
                                       /\ res'[p] = res[q]
         /\ (pc[p] = "have" /\ pc'[p] \in {"have", "sent"}) =>
               (res'[p] = res[p] /\ src'[p] = src[p])
         /\ (pc[p] # "ret" /\ pc'[p] = "ret" /\ res'[p].err = "") =>
               /\ pc[p] = "raw"
               /\ res'[p] \in ServedResults
         /\ (pc[p] = "ret" /\ pc'[p] = "ret") => res'[p] = res[p]]_vars

\* C18 witness: with a toleration in force and an injected time source, a
\* Do call has sent its request with the token it found in the cache, an
\* expirable one whose deadline is after now plus the toleration, which an
\* earlier call of this client fetched.
C18_Witness ==
    /\ options.SoftExpireInSeconds > 0 /\ options.TimeSourceInjected
    /\ pc[1] = "sent" /\ src[1] = "cache"
    /\ res[1].val = cache.Value /\ res[1].val # ""
    /\ cache.Expirable
    /\ cache.Deadline > clock + options.SoftExpireInSeconds
    /\ tokenCalls = 1

\* The errors a failing token server makes fetchToken return.
ServerErrors == TokenErrors \ {"errReq"}

\* C22: with a TokenURL a request can be built for, a Do call that returns a
\* token-server error returns a nil response, has sent exactly one POST and
\* no resource request; the sequential call after it runs a fetch of its own
\* with one POST again; and as long as every call has failed so, the POSTs
\* sent equal the calls made and no resource request has been sent.
C22_FailureNotRetriedNorRemembered ==
    /\ [][(pc[1] # "idle" /\ pc'[1] = "idle" /\ ret'.err \in ServerErrors)
          => /\ ret'.resp = "nil"
             /\ tokenCalls' = seen.t0 + 1
             /\ resourceCalls' = seen.r0]_vars
    /\ []((seen.prev.ret.err \in ServerErrors /\ pc[1] \in {"raw", "ret", "have", "sent"})
          => (src[1] = "raw" /\ tokenCalls = seen.t0 + 1))
    /\ []((pc[1] = "idle" /\ resourceCalls = 0 /\ options.TokenURLValid)
          => tokenCalls = MaxSeqCalls - count)

\* C22 witness: every call the caller had to make has returned a
\* token-server error; as many POSTs as calls were sent and no resource
\* request.
C22_Witness ==
    /\ count = 0 /\ pc[1] = "idle"
    /\ ret.err \in ServerErrors /\ seen.prev.ret.err \in ServerErrors
    /\ tokenCalls = MaxSeqCalls
    /\ resourceCalls = 0

\* The resource request of the call that returned r failed in transport.
SendFailed(r) == r.err = "errResp"

C24_ClientsDoNotShare ==
    [][\A c \in ClientIDs :
         /\ clients'.held[c] \in {"", TokenOf(c)}
         /\ \A d \in ClientIDs \ {c} :
              (c \notin clients.built /\ c \in clients'.built)
                 => clients'.slots[clients.cacheOf[d]] = clients.slots[clients.cacheOf[d]]]_vars

\* C24 witness: both Clients were built with no cache configured; Client 1
\* fetched its token and getToken of Client 2 has returned that token.
C24_Witness ==
    /\ clients.cacheOf[1] = clients.cacheOf[2]
    /\ clients.built = ClientIDs
    /\ clients.held[1] = TokenOf(1)
    /\ clients.held[2] = TokenOf(1)

\* A Put or an Expire of user q has created the file and not yet written it.
MidWrite(q) == users.w[q].op \in {"put", "expire"} /\ NextStep(q) = "write"

\* C25: on the file backend a step of Put or Expire never turns a file that
\* holds a token record into one that does not decode, and a Get that reads
\* the file while a Put or an Expire is between its steps reads a token.
C25_FileWritesAtomic ==
    [][options.Cache = "file" =>
         /\ ~Content("file", cache).err => ~Content("file", cache').err
         /\ \A p \in Procs :
              (/\ users.w[p].op = "get" /\ NextStep(p) = "read"
               /\ users'.w[p] # users.w[p]
               /\ \E q \in Procs \ {p} : MidWrite(q))
                 => ~users'.w[p].err]_vars

\* C25 witness: an Expire read the token in the file and has truncated the
\* file with os.Create; a Get of another process on the same path has read
\* the empty file in the meantime and holds an error.
C25_Witness ==
    /\ options.Cache = "file" /\ ~users.together
    /\ \E p, q \in Procs :
         /\ p # q
         /\ users.w[q].op = "expire" /\ NextStep(q) = "write"
         /\ users.w[q].t = OldToken
         /\ users.w[p].op = "get" /\ NextStep(p) = "unlock"
         /\ users.w[p].err
         /\ cache = File(TRUE, EmptyText)

\* C26: parseToken returns no error only for a body that decodes as a JSON
\* object whose access_token is present, a string and not empty; a body that
\* does not decode, a missing, a non-string (number, boolean, null) and an
\* empty access_token each give an error; and on success the access token
\* returned is the string of the field.
C26_ParseTokenAccessToken ==
    (probe.fn = "parseToken" /\ probe.done) =>
       /\ probe.out.err = ""
            => /\ probe.body.kind = "object"
               /\ probe.body.at.ty = "string"
               /\ probe.body.at.s # ""
               /\ probe.out.accessToken = probe.body.at.s
       /\ probe.body.kind \in {"invalid", "nonobject", "null"} => probe.out.err # ""
       /\ probe.body.at.ty \in {"absent", "null", "number", "bool"}
            => probe.out.err # ""
       /\ (probe.body.at.ty = "string" /\ probe.body.at.s = "") => probe.out.err # ""

\* parseToken has returned the access token "a" of a body with an expires_in.
C26_Witness ==
    /\ probe.fn = "parseToken" /\ probe.done
    /\ probe.body.at = JTok("a")
    /\ probe.body.ex = JNum(15)
    /\ probe.out.err = ""
    /\ probe.out.accessToken = "a"

\* The readings of an expires_in string: the numeral of an integer, or
\* characters that are no number at all.
IsNumeral(cs) ==
    LET ds == IF Len(cs) > 0 /\ cs[1] \in {"+", "-"} THEN Tail(cs) ELSE cs
    IN  Len(ds) > 0 /\ \A i \in 1..Len(ds) : IsDigit(ds[i])
NonNumeric(cs) == cs = <<>> \/ \E i \in 1..Len(cs) : cs[i] \notin {"0", "1", "2", "3", "4", "5", "6", "7", "8", "9", "+", "-", "."}
NumeralValue(cs) ==
    IF cs[1] = "-" THEN 0 - DigitsValue(Tail(cs))
    ELSE IF cs[1] = "+" THEN DigitsValue(Tail(cs))
    ELSE DigitsValue(cs)

\* parseToken has been applied to a body whose access_token is good.
ParsedExpiresIn ==
    /\ probe.fn = "parseToken" /\ probe.done
    /\ probe.body.kind = "object"
    /\ probe.body.at = JTok("a")

\* C27: for a body with a good access_token, parseToken gives the duration
\* n seconds for the number n (written n or n.0) and for the string "n", the
\* whole seconds toward zero of a fractional number, an error for a string
\* that is no number and for a boolean, an object, an array and null, and
\* the duration 0 without error when expires_in is absent.
C27_ExpiresInAllEncodings ==
    ParsedExpiresIn =>
       LET ex == probe.body.ex
       IN  /\ ex.ty = "number"
                => /\ probe.out.err = ""
                   /\ probe.out.expiresIn = Second * TruncTenths(ex.n)
           /\ (ex.ty = "string" /\ IsNumeral(ex.c))
                => /\ probe.out.err = ""
                   /\ probe.out.expiresIn = Second * NumeralValue(ex.c)
           /\ (ex.ty = "string" /\ NonNumeric(ex.c)) => probe.out.err # ""
           /\ ex.ty \in {"bool", "object", "array", "null"} => probe.out.err # ""
           /\ ex.ty = "absent"
                => (probe.out.err = "" /\ probe.out.expiresIn = 0)

\* parseToken has returned, without error, a negative duration for an
\* expires_in of NumberFits + 1 seconds.
C27_Witness ==
    /\ ParsedExpiresIn
    /\ probe.body.ex = JNum(10 * (NumberFits + 1))
    /\ probe.out.err = ""
    /\ probe.out.expiresIn < 0

\* C28: the token a fetch stores is expirable exactly when the duration
\* parseToken returned is not 0; with expires_in absent, 0 or a fraction that
\* truncates to 0 it is stored non-expirable, and the getToken of a later
\* call, whatever the clock reads, takes it from the cache, unless a 401 or a
\* New has expired the cache in between.
C28_ExpirableIffDuration ==
    (probe.fn = "FetchGet" /\ probe.done) =>
       /\ probe.out.put <=> probe.out.info.err = ""
       /\ probe.out.put
            => /\ probe.out.stored.Value = probe.out.info.accessToken
               /\ probe.out.stored.Expirable <=> probe.out.info.expiresIn # 0
       /\ (probe.out.put /\ probe.body.ex \in {JAbsent, JNum(0), JNum(4), JNum(0 - 4)})
            => ~probe.out.stored.Expirable
       /\ (probe.out.put /\ ~probe.out.stored.Expirable /\ probe.between = "nothing")
            => /\ probe.out.reused
               /\ probe.out.val = probe.out.stored.Value
       /\ (probe.out.put /\ probe.between # "nothing") => ~probe.out.reused

\* A token fetched with an expires_in of 0.4 seconds is stored non-expirable
\* and a later call, at a later clock reading, takes it from the cache.
C28_Witness ==
    /\ probe.fn = "FetchGet" /\ probe.done
    /\ probe.body.ex = JNum(4)
    /\ probe.between = "nothing"
    /\ probe.later > probe.now
    /\ probe.out.put /\ ~probe.out.stored.Expirable
    /\ probe.out.reused /\ probe.out.val = "a"

EndsInExpire ==
    /\ probe.fn = "Ops"
    /\ probe.applied # <<>>
    /\ probe.applied[Len(probe.applied)] = "expire"

\* C30: on the in-memory cache an Expire leaves the token with its value,
\* expirable and with the fixed past deadline; an Expire that follows an
\* Expire changes nothing; and after any sequence of Put and Expire calls
\* that ends in Expire, Get returns, without error, the value of the latest
\* Put, expirable, with the fixed past deadline.
C30_ExpireKeepsValueIdempotent ==
    EndsInExpire =>
       /\ probe.store = Token(probe.before.Value, ExpiredDeadline, TRUE)
       /\ probe.store.Value = probe.last
       /\ (Len(probe.applied) > 1 /\ probe.applied[Len(probe.applied) - 1] = "expire")
            => probe.store = probe.before
       /\ probe.done
            => /\ ~probe.out.err
               /\ probe.out.t = Token(probe.last, ExpiredDeadline, TRUE)

\* Get has returned the value of the Put, expired, after Put, Expire, Expire
\* on a cache that held another token.
C30_Witness ==
    /\ probe.fn = "Ops" /\ probe.done
    /\ probe.applied = <<"put", "expire", "expire">>
    /\ probe.last = "c"
    /\ probe.out.t = Token("c", ExpiredDeadline, TRUE)

\* C21: once the context of the request of a Do call under way has been
\* cancelled, that Do call returns, whether or not the servers reply.
C21_CancelledCallReturns == (1 \in cancelled) ~> (pc[1] = "idle")

\* C21 witness: the context has been cancelled while Do is blocked in the
\* POST to the token URL.
C21_Witness ==
    /\ 1 \in cancelled
    /\ pc[1] = "raw"
    /\ tokenCalls = 1

\* One user has run put(T) and another expire(), each that one operation,
\* and nobody else has run or is running anything.
PutAndExpire(a, b) ==
    /\ a # b
    /\ users.w[a].n = 1 /\ users.w[a].last.op = "put" /\ ~users.w[a].last.err
    /\ users.w[b].n = 1 /\ users.w[b].last.op = "expire"
    /\ \A p \in Procs : users.w[p].op = "none" /\ (p \notin {a, b} => users.w[p].n = 0)

\* A user is between Lock and Unlock.
InCritical(p) == users.w[p].op # "none" /\ NextStep(p) # "lock"

\* C19: on the memory and the file backend, for users of one Cache instance,
\* at most one user is between Lock and Unlock of Get, Put or Expire at any
\* time and it is the holder of the mutex; when a put(T) and an expire()
\* have run concurrently and nothing else has, the storage holds T or the
\* expired copy of T, and no expired copy of the token held before.
C19_LockedOperationsExclude ==
    (options.Cache \in {"memory", "file"} /\ users.together) =>
       /\ \A p, q \in Procs : (InCritical(p) /\ InCritical(q)) => p = q
       /\ \A p \in Procs : InCritical(p) => users.mutex[Instance(p)] = p
       /\ \A a, b \in Procs :
            PutAndExpire(a, b) =>
               /\ ~Content(options.Cache, cache).err
               /\ Content(options.Cache, cache).t
                     \in {users.w[a].last.arg, TokenExpire(users.w[a].last.arg)}

\* C19 witness: on the file backend a put(T) and an expire() of one
\* instance have both returned without error; the expire read T and the
\* file holds the expired copy of T.
C19_Witness ==
    /\ options.Cache = "file" /\ users.together
    /\ \E a, b \in Procs :
         /\ PutAndExpire(a, b)
         /\ ~users.w[b].last.err
         /\ users.w[b].t = users.w[a].last.arg
         /\ users.w[a].last.arg.Deadline > StartTime
         /\ Content("file", cache).t = TokenExpire(users.w[a].last.arg)

\* C20: the remote backend's Expire takes no lock and writes the expired
\* copy of the token its own Get returned, whatever the key holds by then.
C20_RedisExpireWritesWhatItRead ==
    [][\A p \in Procs :
         (options.Cache = "redis" /\ UserWrite(p) /\ users.w[p].op = "expire")
            => /\ users.mutex = NoUsers.mutex
               /\ Content("redis", cache').t = TokenExpire(users.w[p].t)]_vars

\* C20 witness: put(T) of another client has landed between the Get and the
\* Put of an Expire; both have returned without error and the key holds the
\* expired copy of the older token, with the older value and not T's.
C20_Witness ==
    /\ options.Cache = "redis" /\ ~users.together
    /\ \E a, b \in Procs :
         /\ PutAndExpire(a, b)
         /\ ~users.w[b].last.err
         /\ users.w[b].t = OldToken
         /\ users.w[a].last.arg.Value # OldToken.Value
         /\ Content("redis", cache).t = TokenExpire(OldToken)

\* The cache holds a token that getToken would take as valid right now.
CacheHoldsValid ==
    /\ options.Cache = "memory"
    /\ IsValid(cache, TimeSource, options.SoftExpireInSeconds)

\* C31: with coordination enabled and the in-memory cache, a caller starts
\* its own fetchTokenRaw only while the cache holds no valid token.
C31_FetchOnlyWithoutValidToken ==
    [][\A p \in Procs :
         (/\ ~options.DisableSingleFlight
          /\ options.Cache = "memory"
          /\ pc[p] = "fetch" /\ pc'[p] = "raw")
            => ~CacheHoldsValid]_vars

\* A caller that read an invalid token has its own POST outstanding, the
\* second of the run, while the cache holds the valid token another
\* caller's fetch has stored.
C31_Witness ==
    /\ ~options.DisableSingleFlight
    /\ CacheHoldsValid
    /\ tokenCalls = 2
    /\ \E p \in Procs : pc[p] = "raw" /\ group = p

\* C32: when caller 1's resource request is answered 401 and a fetch of
\* another caller has stored a token since that request went out, the
\* Cache.Expire of caller 1's Do leaves the stored token as it is.
C32_ExpireOnlyRejectedToken ==
    [][(/\ pc[1] = "sent" /\ pc'[1] = "idle"
        /\ Rejected(ret')
        /\ seen.stored.Value # "")
          => cache' = cache]_vars

\* Caller 1 has returned a 401; the token another caller's fetch stored while
\* caller 1's request was out was valid, differs from the one caller 1 sent,
\* and lies force-expired in the cache.
C32_Witness ==
    /\ pc[1] = "idle" /\ ret.who = 1 /\ Rejected(ret)
    /\ seen.stored.Value # ""
    /\ ~seen.stored.Expirable
    /\ cache = Token(seen.stored.Value, ExpiredDeadline, TRUE)
    /\ \E q \in Procs : pc[q] \in {"ret", "have", "sent"} /\ src[q] = "raw"
                        /\ res[q].val = seen.stored.Value

\* The lifetimes, in seconds, that the token server of the model reports and
\* that make a token expirable.
ReportedLifetimes ==
    {Seconds(parseToken(b).expiresIn) :
        b \in {c \in TokenBodies : parseToken(c).err = "" /\ parseToken(c).expiresIn # 0}}

\* C33: with an injected TimeSource the deadline of a token a fetch stores is
\* the reading of the injected clock at the fetch plus the lifetime reported,
\* and the check of a cached expirable token finds it valid exactly while
\* the injected clock reads less than the deadline minus the toleration.
C33_DeadlineOnInjectedClock ==
    [][(options.TimeSourceInjected /\ options.Cache = "memory") =>
          /\ (pc[1] = "raw" /\ pc'[1] = "ret" /\ res'[1].err = "" /\ cache'.Expirable)
                => (cache'.Deadline - clock) \in ReportedLifetimes
          /\ (pc[1] = "check" /\ pc'[1] # "check" /\ got[1].Expirable)
                => (pc'[1] = "have"
                      <=> clock < got[1].Deadline - options.SoftExpireInSeconds)]_vars

\* With an injected TimeSource a fetch has stored a token whose deadline is
\* the wall clock's reading plus the lifetime, which is no reported lifetime
\* away from the reading of the injected clock.
C33_Witness ==
    /\ options.TimeSourceInjected /\ options.Cache = "memory"
    /\ pc[1] = "ret" /\ res[1].err = ""
    /\ cache.Expirable
    /\ clock # wall
    /\ (cache.Deadline - wall) \in ReportedLifetimes
    /\ (cache.Deadline - clock) \notin ReportedLifetimes

\* C34: after New, a token the cache check of a Do call finds valid has a
\* value that is not empty, a fetch that returns no error returns a string
\* that is not empty, and a request that is out carries a bearer token that
\* is not empty.
C34_BearerNeverEmpty ==
    /\ (pc[1] = "check" /\ IsValid(got[1], TimeSource, options.SoftExpireInSeconds))
          => got[1].Value # ""
    /\ (pc[1] \in {"ret", "have"} /\ src[1] = "raw" /\ res[1].err = "")
          => res[1].val # ""
    /\ pc[1] = "sent" => res[1].val # ""

\* Over the file backend the first Do call has sent its request with the
\* empty value of the token an earlier writer left in the file; no POST has
\* been sent to the token URL.
C34_Witness ==
    /\ options.Cache = "file"
    /\ pc[1] = "sent" /\ src[1] = "cache"
    /\ res[1] = Result("", "")
    /\ tokenCalls = 0
    /\ resourceCalls = 1
    /\ Content("file", cache).t = ZeroToken

\* C35: whatever SoftExpireInSeconds New is given, the toleration the Client
\* holds is at least 0, and with it no expirable token is valid at or after
\* its deadline.
C35_TolerationNotNegative ==
    (probe.fn = "New" /\ probe.done) =>
       /\ probe.out.SoftExpireInSeconds >= 0
       /\ \A t \in UnitTokens, n \in UnitTimes :
             (t.Expirable /\ n >= t.Deadline)
                => ~IsValid(t, n, probe.out.SoftExpireInSeconds)

\* New has been given -2 and the Client holds a toleration of -2, with which
\* a token whose deadline passed a second ago is valid.
C35_Witness ==
    /\ probe.fn = "New" /\ probe.done
    /\ probe.configured = -2
    /\ probe.out.SoftExpireInSeconds = -2
    /\ IsValid(Token("a", StartTime - 1, TRUE), StartTime, probe.out.SoftExpireInSeconds)

\* Every lifetime the token server of SpecShort reports is nonzero and at
\* most the toleration of the Client.
LifetimesWithinToleration ==
    \A n \in ShortLifetimes :
       /\ TruncTenths(n) # 0
       /\ TruncTenths(n) <= options.SoftExpireInSeconds

\* C36: when every lifetime the token server reports is nonzero and at most
\* the toleration, a negative one included, no cache check of a Do call
\* finds the token valid, so the call fetches; and the call that fetched a
\* token sends its request with that token.
C36_ShortLivedTokenRefetched ==
    [][LifetimesWithinToleration =>
          /\ (pc[1] = "check" /\ pc'[1] # "check") => pc'[1] = "fetch"
          /\ (pc[1] = "have" /\ pc'[1] # "have" /\ src[1] = "raw" /\ res[1].err = "")
                => /\ pc'[1] = "sent"
                   /\ res'[1].val = seen.stored.Value
                   /\ seen.stored.Value # ""]_vars

\* With an injected TimeSource and a toleration of one second, a Do call has
\* taken from the cache the token of lifetime one second that the call
\* before it fetched and stored.
C36_Witness ==
    /\ LifetimesWithinToleration
    /\ options.TimeSourceInjected
    /\ pc[1] = "have" /\ src[1] = "cache"
    /\ seen.prev.stored.Value # ""
    /\ cache = seen.prev.stored
    /\ res[1] = Result("", cache.Value)

\* C37: when every HTTP exchange and every cache operation returns, the Do
\* calls under way all return: from any state with a call under way a state
\* is reached in which no call is under way; and the callers that wait for
\* a fetch in flight are all released: from any state with a caller waiting
\* a state is reached in which nobody waits.
C37_EveryCallReturns ==
    /\ (\E p \in Procs : pc[p] # "idle") ~> (\A p \in Procs : pc[p] = "idle")
    /\ (\E p \in Procs : pc[p] = "wait") ~> (\A p \in Procs : pc[p] # "wait")

\* A caller that waited for the fetch of another holds the error that fetch
\* ended with.
C37_Witness ==
    /\ ~options.DisableSingleFlight
    /\ \E w \in Procs : pc[w] = "have" /\ src[w] = "shared" /\ res[w].err # ""

\* The storages one Cache.Put of a token of value v can leave behind st,
\* whether the write succeeds or fails; the token carries no deadline or one
\* of the lifetimes the token server reports.
OnePut(st, v) ==
    {BackendPut(options.Cache, st, t, wall, io).store :
        t \in {Token(v, ExpiredDeadline, FALSE)}
                 \cup {Token(v, wall + Seconds(n), TRUE) : n \in Lifetimes},
        io \in Faults(options.Cache)}

\* C38: a fetchTokenRaw that returns an error (transport, body read, status
\* or parse) leaves the storage of the cache as it was; one that returns a
\* token leaves what a single Cache.Put of a token of that value leaves; and
\* no other step of a fetch (sending the POST, handing the result back)
\* changes the storage.
C38_FailedFetchLeavesCache ==
    [][\A p \in Procs :
         /\ (pc[p] = "raw" /\ pc'[p] = "ret" /\ res'[p].err # "")
              => cache' = cache
         /\ (pc[p] = "raw" /\ pc'[p] = "ret" /\ res'[p].err = "")
              => cache' \in OnePut(cache, res'[p].val)
         /\ (pc[p] \in {"fetch", "ret"} /\ pc'[p] # pc[p])
              => cache' = cache]_vars

\* C38 witness: a token was cached, the fetch of a later call failed in
\* the parse and the call has returned that error with the token still in
\* the cache.
C38_Witness ==
    /\ pc[1] = "idle"
    /\ ret.err = "parse token: json"
    /\ tokenCalls >= 2
    /\ ~BackendGet(options.Cache, cache, NoFault).err
    /\ BackendGet(options.Cache, cache, NoFault).t.Value \in TokenValues

\* C39: a Put of the redis backend that writes an expirable token sets the
\* key with an expiration above zero, and so does the Put that Expire makes
\* of the token it has force-expired.
C39_RedisTTLPositive ==
    /\ (/\ probe.fn = "PutGet" /\ probe.done
        /\ probe.kind = "redis" /\ ~probe.out.firstErr
        /\ probe.t.Expirable)
          => probe.out.store.ttl > 0
    /\ (/\ probe.fn = "ExpireGet" /\ probe.done
        /\ probe.kind = "redis" /\ ~probe.out.firstErr)
          => probe.out.store.ttl > 0

\* C39 witness: Expire of the redis backend has rewritten the record of a
\* token whose deadline was ahead; Get reads the token back force-expired,
\* and the expiration the key was set with is not above zero.
C39_Witness ==
    /\ probe.fn = "ExpireGet" /\ probe.done
    /\ probe.kind = "redis" /\ ~probe.out.firstErr /\ ~probe.out.getErr
    /\ probe.store.present /\ probe.store.ttl > 0
    /\ probe.out.t = Token("a", ExpiredDeadline, TRUE)
    /\ probe.out.store.present
    /\ probe.out.store.ttl <= 0

=============================================================================
